---------------------------- MODULE Spec2Model ----------------------------
(***************************************************************************)
(* A model of the questionnaire processor: text normalisation, schema      *)
(* matching, Likert conversion, group filtering, category scoring, the     *)
(* statistics bundle and the recommendations, and the run of main().       *)
(*                                                                         *)
(* Text is a sequence of one-character tokens; "nbsp" stands for U+00A0.   *)
(* Scores are exact rationals <<numerator, denominator>> in lowest terms   *)
(* with a positive denominator (the code uses binary floating point).      *)
(***************************************************************************)
EXTENDS Integers, Sequences, FiniteSets, TLC

VARIABLES
    mode,       \* which entry point of the program this behaviour exercises
    args,       \* the arguments of the function under call (a record)
    ret,        \* what the function returned (a record)
    called,     \* how many calls have returned
    \* the run of main():
    pc,               \* the stage main() is about to run
    config_file,      \* the configuration that load_config() reads
    data_file,        \* the table that load_data() reads
    run,              \* main's local variables, a record
    generated_files,  \* whether the run directory and its reports exist
    result            \* what main() returned, and why

callVars == <<mode, args, ret, called>>

mainVars == <<pc, config_file, data_file, run, generated_files, result>>

vars == <<callVars, mainVars>>

EmptyTable == [columns |-> <<>>, rows |-> <<>>]

\* main's local variables before their assignment; e is the exception main
\* caught, as the list of what its message names; interrupted is whether a
\* prompt of get_user_selections was ended by a KeyboardInterrupt
NoLocals ==
    [df |-> EmptyTable,
     normalized_df |-> EmptyTable,
     normalized_categories |-> <<>>,
     missing_questions |-> <<>>,
     group_info |-> [teams |-> {}, has_teams |-> FALSE,
                     locations |-> {}, has_locations |-> FALSE],
     selected_team |-> <<>>,
     selected_location |-> <<>>,
     filtered_df |-> EmptyTable,
     stats |-> <<>>,
     recommendations |-> <<>>,
     e |-> <<>>,
     interrupted |-> FALSE]

\* main() is not running: a single function is under call
NoRun ==
    /\ pc = "none"
    /\ config_file = <<>>
    /\ data_file = EmptyTable
    /\ run = NoLocals
    /\ generated_files = FALSE
    /\ result = "none"

-----------------------------------------------------------------------------
(* Bounds of the model *)

MaxTextLen == 4

\* differences range over -MaxDiffSteps/20 .. MaxDiffSteps/20
MaxDiffSteps == 6

\* thresholds range over 0 .. MaxThresholdSteps/20
MaxThresholdSteps == 4

\* the entries of a Likert mapping
MaxMappingLen == 2

\* the columns of a table given to normalize_data alone
MaxColumns == 2

\* the questions of one category
MaxQuestions == 2

\* the rows of a table given to filter_data alone
MaxFilterRows == 3

\* the rows of a table given to calculate_category_scores alone
MaxScoreRows == 3

\* the row counts of a statistics bundle given to get_recommendations alone
MaxBundleRows == 1

\* the rows of the data file of a run of main()
MaxRows == 3

\* the rows of a one-column table given to compare_with_overall
MaxNarrowRows == 4

\* the rows of a two-column table given to compare_with_overall
MaxWideRows == 2

-----------------------------------------------------------------------------
(* Text *)

Letters == {"a", "A", "b"}

\* " " and, by name, tab, newline and the non-breaking space: the characters
\* of the alphabet that Python's \s and str.strip() treat as whitespace
Whitespace == {" ", "tab", "nl", "nbsp"}

Alphabet == Letters \cup Whitespace

IsSpace(c) == c \in Whitespace

\* str.lower() of one character
LowerChar(c) == IF c = "A" THEN "a" ELSE c

\* str.lower()
Lower(s) == [i \in 1..Len(s) |-> LowerChar(s[i])]

\* a faulty variant of ReSubWs: the pattern \s instead of \s+
RECURSIVE ReSubEachWs(_)
ReSubEachWs(s) ==
    IF s = <<>> THEN <<>>
    ELSE IF IsSpace(Head(s)) THEN <<" ">> \o ReSubEachWs(Tail(s))
    ELSE <<Head(s)>> \o ReSubEachWs(Tail(s))

\* the rest of s after its leading whitespace
RECURSIVE LStrip(_)
LStrip(s) ==
    IF s # <<>> /\ IsSpace(Head(s)) THEN LStrip(Tail(s)) ELSE s

\* re.sub(r'\s+', ' ', s): every maximal whitespace run becomes one space
RECURSIVE ReSubWs(_)
ReSubWs(s) ==
    IF s = <<>> THEN <<>>
    ELSE IF IsSpace(Head(s)) THEN <<" ">> \o ReSubWs(LStrip(s))
    ELSE <<Head(s)>> \o ReSubWs(Tail(s))

\* s without its trailing whitespace
RECURSIVE RStrip(_)
RStrip(s) ==
    IF s # <<>> /\ IsSpace(s[Len(s)]) THEN RStrip(SubSeq(s, 1, Len(s) - 1)) ELSE s

\* str.strip()
Strip(s) == RStrip(LStrip(s))

\* tools.sanitize_text
sanitize_text(input) == Strip(ReSubWs(input))

\* all texts of length at most n over the alphabet
TextsUpTo(n) == UNION {[1..k -> Alphabet] : k \in 0..n}

-----------------------------------------------------------------------------
(* sanitize_text called on an arbitrary text, and again on its own result *)

InitSanitize ==
    /\ mode = "sanitize_text"
    /\ args \in {[input |-> s] : s \in TextsUpTo(MaxTextLen)}
    /\ ret = [output |-> <<>>, again |-> <<>>]
    /\ called = 0
    /\ NoRun

CallSanitize ==
    /\ mode = "sanitize_text"
    /\ called = 0
    /\ ret' = [output |-> sanitize_text(args.input), again |-> <<>>]
    /\ called' = 1
    /\ UNCHANGED <<mode, args, mainVars>>

CallSanitizeAgain ==
    /\ mode = "sanitize_text"
    /\ called = 1
    /\ ret' = [ret EXCEPT !.again = sanitize_text(ret.output)]
    /\ called' = 2
    /\ UNCHANGED <<mode, args, mainVars>>

NextSanitize == CallSanitize \/ CallSanitizeAgain

SpecSanitize == InitSanitize /\ [][NextSanitize]_vars

\* the non-whitespace characters of s, in order
NonSpace(s) == SelectSeq(s, LAMBDA c : ~IsSpace(c))

\* the number of maximal whitespace runs of s that have a non-whitespace
\* character on both sides
InnerRuns(s) ==
    Cardinality({i \in 2..Len(s) :
        /\ ~IsSpace(s[i])
        /\ IsSpace(s[i - 1])
        /\ \E j \in 1..(i - 2) : ~IsSpace(s[j])})

\* C8: sanitize_text replaces every maximal run of whitespace (space, tab,
\* newline, non-breaking space) by one ASCII space and trims both ends, so a
\* whitespace-only input gives the empty text; applied to its own result it
\* changes nothing.
C8_SanitizeCollapsesTrimsIdempotent ==
    (mode = "sanitize_text" /\ called >= 1) =>
        LET s == args.input
            r == ret.output
        IN  /\ NonSpace(r) = NonSpace(s)
            /\ \A i \in 1..Len(r) : IsSpace(r[i]) =>
                   /\ r[i] = " "
                   /\ 1 < i /\ i < Len(r)
                   /\ ~IsSpace(r[i - 1])
            /\ Len(r) = Len(NonSpace(s)) + InnerRuns(s)
            /\ ((\A i \in 1..Len(s) : IsSpace(s[i])) => r = <<>>)
            /\ (called = 2 => ret.again = r)

\* a text with a run of two whitespace characters, one of them a non-breaking
\* space, between letters, and whitespace at an end, has been sanitized twice
C8_Witness ==
    /\ mode = "sanitize_text"
    /\ called = 2
    /\ \E i \in 2..(Len(args.input) - 1) :
           /\ args.input[i] = "nbsp"
           /\ IsSpace(args.input[i + 1])
           /\ ~IsSpace(args.input[i - 1])
    /\ IsSpace(args.input[Len(args.input)])
    /\ Len(ret.output) >= 1

-----------------------------------------------------------------------------
(* Exact rationals <<n, d>>, d > 0, in lowest terms *)

Abs(n) == IF n < 0 THEN -n ELSE n

RECURSIVE GCD(_, _)
GCD(a, b) == IF b = 0 THEN a ELSE GCD(b, a % b)

\* n / d, d # 0, in lowest terms with a positive denominator
RatNorm(n, d) ==
    LET g == GCD(Abs(n), Abs(d))
        sgn == IF d < 0 THEN -1 ELSE 1
    IN  <<sgn * (n \div g), sgn * (d \div g)>>

RatOfInt(n) == <<n, 1>>

RatAdd(x, y) == RatNorm(x[1] * y[2] + y[1] * x[2], x[2] * y[2])

RatSub(x, y) == RatNorm(x[1] * y[2] - y[1] * x[2], x[2] * y[2])

RatDivInt(x, k) == RatNorm(x[1], x[2] * k)

RatNeg(x) == <<-x[1], x[2]>>

RatAbs(x) == <<Abs(x[1]), x[2]>>

RatLT(x, y) == x[1] * y[2] < y[1] * x[2]

RatLE(x, y) == x[1] * y[2] <= y[1] * x[2]

RatGT(x, y) == RatLT(y, x)

-----------------------------------------------------------------------------
(* analyzer.get_performance_status *)

Statuses == {"significantly_above", "above", "similar", "below", "significantly_below"}

\* the default of the parameter significant_threshold, 0.2
DefaultSignificantThreshold == RatNorm(2, 10)

\* the default of the parameter similar_threshold, 0.1
DefaultSimilarThreshold == RatNorm(1, 10)

\* a faulty variant of get_performance_status: >= where the code has >
get_performance_status_inclusive(difference, significant_threshold, similar_threshold) ==
    IF RatLE(significant_threshold, difference) THEN "significantly_above"
    ELSE IF RatLE(similar_threshold, difference) THEN "above"
    ELSE IF RatLE(RatAbs(difference), similar_threshold) THEN "similar"
    ELSE IF RatLT(difference, RatNeg(significant_threshold)) THEN "significantly_below"
    ELSE "below"

get_performance_status(difference, significant_threshold, similar_threshold) ==
    IF RatGT(difference, significant_threshold) THEN "significantly_above"
    ELSE IF RatGT(difference, similar_threshold) THEN "above"
    ELSE IF RatLE(RatAbs(difference), similar_threshold) THEN "similar"
    ELSE IF RatLT(difference, RatNeg(significant_threshold)) THEN "significantly_below"
    ELSE "below"

\* get_performance_status called on a difference and a pair of thresholds, all
\* multiples of 0.05
InitStatus ==
    /\ mode = "get_performance_status"
    /\ args \in {[difference |-> RatNorm(k, 20),
                  significant_threshold |-> RatNorm(g, 20),
                  similar_threshold |-> RatNorm(m, 20)] :
                     k \in (-MaxDiffSteps)..MaxDiffSteps,
                     g \in 0..MaxThresholdSteps,
                     m \in 0..MaxThresholdSteps}
    /\ ret = [status |-> "none"]
    /\ called = 0
    /\ NoRun

CallStatus ==
    /\ mode = "get_performance_status"
    /\ called = 0
    /\ ret' = [status |-> get_performance_status(args.difference,
                              args.significant_threshold, args.similar_threshold)]
    /\ called' = 1
    /\ UNCHANGED <<mode, args, mainVars>>

NextStatus == CallStatus

SpecStatus == InitStatus /\ [][NextStatus]_vars

\* d > t, for d = <<n, m>> and t = <<p, q>>, by cross-multiplication
Above(d, t) == d[1] * t[2] > t[1] * d[2]

\* d < -t
BelowNeg(d, t) == d[1] * t[2] < -(t[1] * d[2])

\* the band of difference d under the thresholds sig and sim, as the five
\* intervals of the specification
Band(d, sig, sim) ==
    {b \in Statuses :
        \/ b = "significantly_above" /\ Above(d, sig)
        \/ b = "above" /\ Above(d, sim) /\ ~Above(d, sig)
        \/ b = "similar" /\ ~BelowNeg(d, sim) /\ ~Above(d, sim)
        \/ b = "below" /\ ~BelowNeg(d, sig) /\ BelowNeg(d, sim)
        \/ b = "significantly_below" /\ BelowNeg(d, sig)}

\* C2: for thresholds 0 <= similar <= significant every difference falls in
\* exactly one of the five bands and get_performance_status returns it; a
\* difference on a boundary gets the less extreme band.
C2_StatusIsTheBand ==
    (/\ mode = "get_performance_status"
     /\ called = 1
     /\ RatLE(RatOfInt(0), args.similar_threshold)
     /\ RatLE(args.similar_threshold, args.significant_threshold)) =>
        LET d == args.difference
            sig == args.significant_threshold
            sim == args.similar_threshold
        IN  /\ Band(d, sig, sim) = {ret.status}
            /\ (d = sig /\ sim # sig => ret.status = "above")
            /\ (d = sim => ret.status = "similar")
            /\ (d = RatNeg(sim) => ret.status = "similar")
            /\ (d = RatNeg(sig) /\ sim # sig => ret.status = "below")

\* the difference 0.2 has been classified under the thresholds 0.2 and 0.1
C2_Witness ==
    /\ mode = "get_performance_status"
    /\ called = 1
    /\ args.difference = <<1, 5>>
    /\ args.significant_threshold = <<1, 5>>
    /\ args.similar_threshold = <<1, 10>>
    /\ ret.status = "above"

-----------------------------------------------------------------------------
(* Cells of a table, and the Likert conversion of one cell *)

\* an absent cell, and the not-a-number that the conversion returns (np.nan)
NaN == [k |-> "nan", t |-> <<>>, n |-> 0]

\* Python's None: the explicit no-score marker of the Likert mapping
None == [k |-> "none", t |-> <<>>, n |-> 0]

Txt(s) == [k |-> "text", t |-> s, n |-> 0]

Num(i) == [k |-> "num", t |-> <<>>, n |-> i]

\* pd.isna
isna(c) == c.k \in {"nan", "none"}

Digits == <<"0", "1", "2", "3", "4", "5", "6", "7", "8", "9">>

\* str() of a cell that is not null: a text is itself, an integer its decimal
\* form (one digit suffices for the scores of the model)
Str(c) ==
    IF c.k = "text" THEN c.t
    ELSE IF c.n < 0 THEN <<"-", Digits[1 - c.n]>>
    ELSE <<Digits[c.n + 1]>>

\* the loop over likert_mapping.items() from entry i on: the value of the
\* first key that, sanitized and lower-cased, equals the lower-cased text
RECURSIVE FirstCaseInsensitive(_, _, _)
FirstCaseInsensitive(likert_mapping, normalized_text, i) ==
    IF i > Len(likert_mapping) THEN NaN
    ELSE IF Lower(normalized_text) = Lower(sanitize_text(likert_mapping[i].key))
         THEN likert_mapping[i].value
         ELSE FirstCaseInsensitive(likert_mapping, normalized_text, i + 1)

\* a faulty variant of normalize_likert_response: no exact lookup before the scan
normalize_likert_response_scan_only(text, likert_mapping) ==
    IF isna(text) THEN NaN
    ELSE FirstCaseInsensitive(likert_mapping, sanitize_text(Strip(Str(text))), 1)

\* data_processor.normalize_data.normalize_likert_response; the mapping is a
\* sequence of [key, value] in the mapping's order, its keys distinct
normalize_likert_response(text, likert_mapping) ==
    IF isna(text) THEN NaN
    ELSE
        LET text_str == Strip(Str(text))
            normalized_text == sanitize_text(text_str)
        IN  IF likert_mapping # <<>>
            THEN IF \E i \in 1..Len(likert_mapping) : likert_mapping[i].key = normalized_text
                 THEN likert_mapping[CHOOSE i \in 1..Len(likert_mapping) :
                                         likert_mapping[i].key = normalized_text].value
                 ELSE FirstCaseInsensitive(likert_mapping, normalized_text, 1)
            ELSE NaN

\* the keys a mapping of the model draws from: case and whitespace variants
LikertKeys ==
    {<<"a">>, <<"A">>, <<"a", "nbsp", "b">>, <<"A", " ", "b">>}

LikertValues == {Num(0), Num(1), None}

\* the mappings of at most n entries with distinct keys
LikertMappings(n) ==
    UNION {{m \in [1..k -> [key : LikertKeys, value : LikertValues]] :
               \A i, j \in 1..k : i # j => m[i].key # m[j].key} : k \in 0..n}

\* the raw cells the conversion is called on
LikertCells ==
    {NaN, Num(1),
     Txt(<<"a">>), Txt(<<"A">>), Txt(<<" ", "A", "tab">>), Txt(<<"b">>),
     Txt(<<"a", " ", "b">>), Txt(<<"a", "nl", " ", "b">>), Txt(<<"A", " ", "B">>)}

InitLikert ==
    /\ mode = "normalize_likert_response"
    /\ args \in [text : LikertCells, likert_mapping : LikertMappings(MaxMappingLen)]
    /\ ret = [score |-> NaN]
    /\ called = 0
    /\ NoRun

CallLikert ==
    /\ mode = "normalize_likert_response"
    /\ called = 0
    /\ ret' = [score |-> normalize_likert_response(args.text, args.likert_mapping)]
    /\ called' = 1
    /\ UNCHANGED <<mode, args, mainVars>>

NextLikert == CallLikert

SpecLikert == InitLikert /\ [][NextLikert]_vars

\* C4: a null cell converts to undefined; otherwise the cell's text is
\* whitespace-normalized and looked up exactly; if absent, the value of the
\* first key, in mapping order, whose normalized form equals the text
\* case-insensitively is returned; with no such key the result is undefined,
\* never zero; a key mapped to the no-score marker gives undefined too.
C4_LikertConversion ==
    (mode = "normalize_likert_response" /\ called = 1) =>
        LET m == args.likert_mapping
            t == IF isna(args.text) THEN <<>> ELSE sanitize_text(Str(args.text))
            exact == {i \in 1..Len(m) : m[i].key = t}
            loose == {i \in 1..Len(m) : Lower(sanitize_text(m[i].key)) = Lower(t)}
            first == CHOOSE i \in loose : \A j \in loose : i <= j
            hit == IF exact # {} THEN CHOOSE i \in exact : TRUE ELSE first
        IN  /\ isna(args.text) => ret.score = NaN
            /\ (~isna(args.text) /\ exact \cup loose = {}) => ret.score = NaN
            /\ (~isna(args.text) /\ exact \cup loose # {}) => ret.score = m[hit].value
            /\ (~isna(args.text) /\ exact \cup loose # {} /\ m[hit].value = None)
                   => isna(ret.score)
            /\ ret.score = Num(0) =>
                   \E i \in 1..Len(m) : m[i].value = Num(0) /\ i \in loose

\* a text with surrounding whitespace has been converted where its exact key
\* comes second in the mapping, after a key that matches case-insensitively
C4_Witness ==
    /\ mode = "normalize_likert_response"
    /\ called = 1
    /\ args.text = Txt(<<" ", "A", "tab">>)
    /\ Len(args.likert_mapping) = 2
    /\ args.likert_mapping[1].key = <<"a">>
    /\ args.likert_mapping[2].key = <<"A">>
    /\ args.likert_mapping[1].value # args.likert_mapping[2].value
    /\ ret.score = args.likert_mapping[2].value

-----------------------------------------------------------------------------
(* Tables (pandas DataFrames) and data_processor.normalize_data *)

\* A table is [columns, rows]: the column names in order and the rows in
\* order, each row the sequence of its cells in column order.

\* name in df.columns
HasColumn(df, name) == \E i \in 1..Len(df.columns) : df.columns[i] = name

\* the position of the column called name, which is a column of df once
ColumnIndex(df, name) == CHOOSE i \in 1..Len(df.columns) : df.columns[i] = name

\* df[name]: the cells of that column in row order
Column(df, name) == [r \in 1..Len(df.rows) |-> df.rows[r][ColumnIndex(df, name)]]

\* whether more than one column of df is called name
IsDuplicated(df, name) ==
    \E i, j \in 1..Len(df.columns) :
        i # j /\ df.columns[i] = name /\ df.columns[j] = name

\* df[name] = df[name].apply(f), for f the conversion under likert_mapping
ApplyLikert(df, name, likert_mapping) ==
    [df EXCEPT !.rows =
        [r \in 1..Len(df.rows) |->
            [c \in 1..Len(df.columns) |->
                IF c = ColumnIndex(df, name)
                THEN normalize_likert_response(df.rows[r][c], likert_mapping)
                ELSE df.rows[r][c]]]]

\* the questions loop of step 2 for one category, from question i on: the
\* matched list
RECURSIVE MatchedOf(_, _, _)
MatchedOf(normalized_df, questions, i) ==
    IF i > Len(questions) THEN <<>>
    ELSE LET normalized_question == sanitize_text(questions[i])
         IN  IF HasColumn(normalized_df, normalized_question)
             THEN <<normalized_question>> \o MatchedOf(normalized_df, questions, i + 1)
             ELSE MatchedOf(normalized_df, questions, i + 1)

\* the same loop: what it appends to missing_questions
RECURSIVE MissingOf(_, _, _, _)
MissingOf(normalized_df, category_name, questions, i) ==
    IF i > Len(questions) THEN <<>>
    ELSE LET normalized_question == sanitize_text(questions[i])
         IN  IF HasColumn(normalized_df, normalized_question)
             THEN MissingOf(normalized_df, category_name, questions, i + 1)
             ELSE <<<<category_name, questions[i]>>>>
                      \o MissingOf(normalized_df, category_name, questions, i + 1)

\* the categories loop of step 2, from category i on: missing_questions
RECURSIVE MissingFrom(_, _, _)
MissingFrom(normalized_df, categories, i) ==
    IF i > Len(categories) THEN <<>>
    ELSE MissingOf(normalized_df, categories[i].name, categories[i].questions, 1)
             \o MissingFrom(normalized_df, categories, i + 1)

\* every matched question of every category, in the order of the conversion
\* loop of step 3
RECURSIVE Flatten(_, _)
Flatten(matched_questions, i) ==
    IF i > Len(matched_questions) THEN <<>>
    ELSE matched_questions[i].questions \o Flatten(matched_questions, i + 1)

\* the conversion loop of step 3 over the matched questions from the i-th on:
\* each pass converts the column again, whatever it holds by then
RECURSIVE ConvertAll(_, _, _, _)
ConvertAll(normalized_df, todo, i, likert_mapping) ==
    IF i > Len(todo) THEN normalized_df
    ELSE ConvertAll(ApplyLikert(normalized_df, todo[i], likert_mapping),
                    todo, i + 1, likert_mapping)

\* a faulty variant of normalize_data: a question is looked up as written, without
\* sanitize_text
normalize_data_unsanitized(df, categories, likert_mapping) ==
    LET renamed == [df EXCEPT !.columns =
                        [c \in 1..Len(df.columns) |-> sanitize_text(df.columns[c])]]
        matched_questions ==
            [i \in 1..Len(categories) |->
                [name |-> categories[i].name,
                 questions |-> SelectSeq(categories[i].questions,
                                         LAMBDA q : HasColumn(renamed, q))]]
        missing_questions ==
            MissingFrom([renamed EXCEPT !.columns = <<>>],
                        [i \in 1..Len(categories) |->
                            [name |-> categories[i].name,
                             questions |-> SelectSeq(categories[i].questions,
                                               LAMBDA q : ~HasColumn(renamed, q))]], 1)
    IN  [raised |-> FALSE,
         normalized_df |-> renamed,
         matched_questions |-> matched_questions,
         missing_questions |-> missing_questions]

\* a faulty variant of normalize_data: a configured question without a column
\* is an error
normalize_data_strict(df, categories, likert_mapping) ==
    LET renamed == [df EXCEPT !.columns =
                        [c \in 1..Len(df.columns) |-> sanitize_text(df.columns[c])]]
        matched_questions ==
            [i \in 1..Len(categories) |->
                [name |-> categories[i].name,
                 questions |-> MatchedOf(renamed, categories[i].questions, 1)]]
        missing_questions == MissingFrom(renamed, categories, 1)
        todo == Flatten(matched_questions, 1)
    IN  [raised |-> missing_questions # <<>>,
         normalized_df |-> ConvertAll(renamed, todo, 1, likert_mapping),
         matched_questions |-> matched_questions,
         missing_questions |-> missing_questions]

\* data_processor.normalize_data.  categories is the sequence of [name,
\* questions] in the configuration's order.  The result is the returned tuple,
\* or raised = TRUE: the conversion of a matched question whose name denotes
\* two columns of a table with rows ends in pandas' ValueError (the truth
\* value of a Series is ambiguous).
normalize_data(df, categories, likert_mapping) ==
    LET renamed == [df EXCEPT !.columns =
                        [c \in 1..Len(df.columns) |-> sanitize_text(df.columns[c])]]
        matched_questions ==
            [i \in 1..Len(categories) |->
                [name |-> categories[i].name,
                 questions |-> MatchedOf(renamed, categories[i].questions, 1)]]
        missing_questions == MissingFrom(renamed, categories, 1)
        todo == Flatten(matched_questions, 1)
        raises == /\ Len(df.rows) > 0
                  /\ \E i \in 1..Len(todo) : IsDuplicated(renamed, todo[i])
    IN  IF raises
        THEN [raised |-> TRUE,
              normalized_df |-> renamed,
              matched_questions |-> matched_questions,
              missing_questions |-> missing_questions]
        ELSE [raised |-> FALSE,
              normalized_df |-> ConvertAll(renamed, todo, 1, likert_mapping),
              matched_questions |-> matched_questions,
              missing_questions |-> missing_questions]

-----------------------------------------------------------------------------
(* normalize_data called on a table and a category schema *)

\* raw column headers: two spellings of "a b", "A" and "A b"
RawHeaders ==
    {<<"a", " ", "b">>, <<"a", "nbsp", " ", "b">>, <<"A">>, <<"A", " ", "b">>}

\* configured question texts: two spellings of "a b", and "a", which differs
\* from the header "A" in case only
QuestionTexts ==
    {<<"a", " ", "b">>, <<"a", "tab", "b">>, <<"a", " ">>}

CategoryNames == <<"c1", "c2">>

\* the sequences over S of length at most n
SeqsUpTo(S, n) == UNION {[1..k -> S] : k \in 0..n}

\* the category schemas: the first k category names, each with at most n
\* questions
Schemas(n) ==
    UNION {{[i \in 1..k |-> [name |-> CategoryNames[i], questions |-> qs[i]]] :
               qs \in [1..k -> SeqsUpTo(QuestionTexts, n)]} : k \in 0..Len(CategoryNames)}

\* the one-row tables of at most n columns with distinct raw headers; every
\* cell holds the text "a"
HeaderTables(n) ==
    {[columns |-> h, rows |-> <<[c \in 1..Len(h) |-> Txt(<<"a">>)]>>] :
        h \in {g \in SeqsUpTo(RawHeaders, n) :
                  \A i, j \in 1..Len(g) : i # j => g[i] # g[j]}}

\* the mapping of the schema-matching runs
SmallMapping == <<[key |-> <<"a">>, value |-> Num(1)]>>

InitNormalize ==
    /\ mode = "normalize_data"
    /\ args \in [df : HeaderTables(MaxColumns),
                 categories : Schemas(MaxQuestions),
                 likert_mapping : {SmallMapping}]
    /\ ret = [raised |-> FALSE, normalized_df |-> EmptyTable,
              matched_questions |-> <<>>, missing_questions |-> <<>>]
    /\ called = 0
    /\ NoRun

CallNormalize ==
    /\ mode = "normalize_data"
    /\ called = 0
    /\ ret' = normalize_data(args.df, args.categories, args.likert_mapping)
    /\ called' = 1
    /\ UNCHANGED <<mode, args, mainVars>>

NextNormalize == CallNormalize

SpecNormalize == InitNormalize /\ [][NextNormalize]_vars

\* how many entries of the sequence s satisfy Test
CountIn(s, Test(_)) == Cardinality({i \in 1..Len(s) : Test(s[i])})

\* normalize_data has returned (not raised)
NormalizeReturned == mode = "normalize_data" /\ called = 1 /\ ~ret.raised

\* the sequence s holds no value twice
NoDuplicates(s) == \A m, n \in 1..Len(s) : s[m] = s[n] => m = n

\* what the matching loop does guarantee: per category the matched and the
\* missing entries together are as many as the configured questions, every
\* question is in exactly one of the two lists, and an entry occurs as often
\* as the schema lists a question that leads to it
EntriesFollowOccurrences ==
    NormalizeReturned =>
        /\ Len(ret.matched_questions) = Len(args.categories)
        /\ \A p \in 1..Len(ret.missing_questions) :
               \E i \in 1..Len(args.categories) :
                   ret.missing_questions[p][1] = args.categories[i].name
        /\ \A i \in 1..Len(args.categories) :
               LET name == args.categories[i].name
                   qs == args.categories[i].questions
                   matched == ret.matched_questions[i].questions
                   missing == SelectSeq(ret.missing_questions, LAMBDA e : e[1] = name)
               IN  /\ ret.matched_questions[i].name = name
                   /\ Len(matched) + Len(missing) = Len(qs)
                   /\ \A k \in 1..Len(qs) :
                          LET inMatched == \E m \in 1..Len(matched) :
                                               matched[m] = sanitize_text(qs[k])
                              inMissing == \E m \in 1..Len(missing) :
                                               missing[m] = <<name, qs[k]>>
                          IN  /\ inMatched # inMissing
                              /\ inMatched =>
                                     CountIn(matched, LAMBDA e : e = sanitize_text(qs[k]))
                                       = CountIn(qs, LAMBDA q : sanitize_text(q)
                                                                  = sanitize_text(qs[k]))
                              /\ inMissing =>
                                     CountIn(missing, LAMBDA e : e = <<name, qs[k]>>)
                                       = CountIn(qs, LAMBDA q : q = qs[k])

\* C5 as claimed: after normalize_data every configured question of every
\* category is in exactly one of its category's matched list and the
\* missing-questions list, the two lists together hold exactly one entry per
\* configured question, and no entry is duplicated.
C5_MatchedMissingPartition ==
    NormalizeReturned =>
        /\ EntriesFollowOccurrences
        /\ NoDuplicates(ret.missing_questions)
        /\ \A i \in 1..Len(ret.matched_questions) :
               NoDuplicates(ret.matched_questions[i].questions)

\* normalize_data has returned a matched list that holds one column twice,
\* for two configured questions that are written differently
C5_DuplicatedMatchedEntry ==
    /\ NormalizeReturned
    /\ \E i \in 1..Len(args.categories) :
           LET qs == args.categories[i].questions
               matched == ret.matched_questions[i].questions
           IN  /\ Len(qs) = 2 /\ qs[1] # qs[2]
               /\ Len(matched) = 2 /\ matched[1] = matched[2]

\* every (category name, question text) of the schema, in schema order
RECURSIVE SchemaPairs(_, _)
SchemaPairs(categories, i) ==
    IF i > Len(categories) THEN <<>>
    ELSE [k \in 1..Len(categories[i].questions) |->
             <<categories[i].name, categories[i].questions[k]>>]
         \o SchemaPairs(categories, i + 1)

\* the normalized names of the columns of the table df
NormalizedNames(df) == {sanitize_text(df.columns[c]) : c \in 1..Len(df.columns)}

\* C6: a configured question is matched exactly if its normalized text is the
\* normalized name of a column of the table; the matched entry is that
\* normalized name; the matched lists and the missing-questions list of
\* (category, original text) follow the schema's order.
C6_MatchingIsWhitespaceTolerantAndOrdered ==
    NormalizeReturned =>
        /\ \A i \in 1..Len(args.categories) :
               ret.matched_questions[i].questions =
                   SelectSeq([k \in 1..Len(args.categories[i].questions) |->
                                 sanitize_text(args.categories[i].questions[k])],
                             LAMBDA n : n \in NormalizedNames(args.df))
        /\ ret.missing_questions =
               SelectSeq(SchemaPairs(args.categories, 1),
                         LAMBDA e : sanitize_text(e[2]) \notin NormalizedNames(args.df))
        /\ \A i \in 1..Len(args.categories) :
               \A m \in 1..Len(ret.matched_questions[i].questions) :
                   HasColumn(ret.normalized_df, ret.matched_questions[i].questions[m])

\* a question written with a tab has matched a header written with a
\* non-breaking space, and two questions of two categories are missing in
\* schema order
C6_Witness ==
    /\ NormalizeReturned
    /\ args.df.columns = << <<"a", "nbsp", " ", "b">> >>
    /\ Len(args.categories) = 2
    /\ args.categories[1].questions = << <<"a", " ">>, <<"a", "tab", "b">> >>
    /\ args.categories[2].questions = << <<"a", " ">> >>
    /\ ret.matched_questions[1].questions = << <<"a", " ", "b">> >>
    /\ ret.missing_questions = << <<"c1", <<"a", " ">> >>, <<"c2", <<"a", " ">> >> >>

\* the positions of the columns of the table given to normalize_data whose
\* header normalizes to name
OriginalsOf(name) ==
    {c \in 1..Len(args.df.columns) : sanitize_text(args.df.columns[c]) = name}

\* column c of the table t holds, row by row, the cells of column o of the
\* table given to normalize_data
HoldsOriginal(t, c, o) ==
    /\ Len(t.rows) = Len(args.df.rows)
    /\ \A r \in 1..Len(t.rows) : t.rows[r][c] = args.df.rows[r][o]

\* column c of the table t holds scores: numbers and missing values, no text
HoldsScores(t, c) == \A r \in 1..Len(t.rows) : t.rows[r][c].k # "text"

\* C15 as claimed: after normalize_data the returned table holds, for every
\* matched question column, the numeric scores as a parallel column and still
\* the original response text of that column, unmodified.
C15_OriginalTextIsKept ==
    NormalizeReturned =>
        \A i \in 1..Len(ret.matched_questions) :
            \A k \in 1..Len(ret.matched_questions[i].questions) :
                \A o \in OriginalsOf(ret.matched_questions[i].questions[k]) :
                    LET t == ret.normalized_df
                    IN  /\ \E c \in 1..Len(t.columns) : HoldsScores(t, c)
                        /\ \E c \in 1..Len(t.columns) : HoldsOriginal(t, c, o)

\* what normalize_data does with a matched question column: the returned
\* table has as many columns as the given one, and the column itself holds
\* the scores in place of the texts
ScoresReplaceTheText ==
    NormalizeReturned =>
        /\ Len(ret.normalized_df.columns) = Len(args.df.columns)
        /\ \A i \in 1..Len(ret.matched_questions) :
               \A k \in 1..Len(ret.matched_questions[i].questions) :
                   \A o \in OriginalsOf(ret.matched_questions[i].questions[k]) :
                       /\ HoldsScores(ret.normalized_df, o)
                       /\ Len(args.df.rows) > 0 => ~HoldsOriginal(ret.normalized_df, o, o)

\* normalize_data has returned a table whose only column was matched and now
\* holds the score 1 where the given table holds the answer "a"
C15_TextOverwritten ==
    /\ NormalizeReturned
    /\ args.df.columns = << <<"a", " ", "b">> >>
    /\ args.df.rows = << <<Txt(<<"a">>)>> >>
    /\ args.categories = <<[name |-> "c1", questions |-> << <<"a", " ", "b">> >>]>>
    /\ ret.normalized_df = [columns |-> << <<"a", " ", "b">> >>,
                            rows |-> << <<Num(1)>> >>]

\* two distinct headers of the table given to normalize_data normalize to the
\* same text
HeadersCollide ==
    \E c, d \in 1..Len(args.df.columns) :
        /\ args.df.columns[c] # args.df.columns[d]
        /\ sanitize_text(args.df.columns[c]) = sanitize_text(args.df.columns[d])

\* C16 as claimed: when two distinct original headers normalize to the same
\* text, normalize_data raises an error or disambiguates them: it never
\* returns a table in which one normalized name denotes two columns.
C16_NormalizedNamesAreUnique ==
    (mode = "normalize_data" /\ called = 1 /\ HeadersCollide) =>
        \/ ret.raised
        \/ NoDuplicates(ret.normalized_df.columns)

\* normalize_data has returned a table with two columns of one name, for two
\* headers that differ in a non-breaking space and that no question matches
C16_OneNameTwoColumns ==
    /\ NormalizeReturned
    /\ args.df.columns = << <<"a", " ", "b">>, <<"a", "nbsp", " ", "b">> >>
    /\ args.categories = <<[name |-> "c1", questions |-> << <<"a", " ">> >>]>>
    /\ ret.normalized_df.columns = << <<"a", " ", "b">>, <<"a", " ", "b">> >>

\* the two cells are the same score: the same number, or both undefined
SameScore(x, y) == (isna(x) /\ isna(y)) \/ (~isna(x) /\ x = y)

\* C24 as claimed: the score normalize_data gives a cell of a matched column
\* depends only on the raw cell and the Likert mapping: also when the column
\* is matched by more than one configured question, every cell holds the
\* score it gets from one conversion.
C24_ScoreOfOneConversion ==
    NormalizeReturned =>
        \A i \in 1..Len(ret.matched_questions) :
            \A k \in 1..Len(ret.matched_questions[i].questions) :
                \A o \in OriginalsOf(ret.matched_questions[i].questions[k]) :
                    \A r \in 1..Len(args.df.rows) :
                        SameScore(ret.normalized_df.rows[r][o],
                                  normalize_likert_response(args.df.rows[r][o],
                                                            args.likert_mapping))

\* how many configured questions match the column called name
TimesMatched(name) ==
    Len(SelectSeq(Flatten(ret.matched_questions, 1), LAMBDA q : q = name))

\* what the conversion loop does guarantee: a column matched once holds the
\* score of its raw cell, and a column matched more often holds the
\* conversion of that score's own text
ScoreOfAsManyConversions ==
    NormalizeReturned =>
        \A c \in 1..Len(ret.normalized_df.columns) :
            \A r \in 1..Len(args.df.rows) :
                LET once == normalize_likert_response(args.df.rows[r][c],
                                                      args.likert_mapping)
                    n == TimesMatched(ret.normalized_df.columns[c])
                IN  /\ n = 0 => ret.normalized_df.rows[r][c] = args.df.rows[r][c]
                    /\ n = 1 => ret.normalized_df.rows[r][c] = once
                    /\ n = 2 => ret.normalized_df.rows[r][c]
                                    = normalize_likert_response(once, args.likert_mapping)

\* normalize_data has returned a table whose column, listed in two
\* categories, holds no score where one conversion of the answer gives 1
C24_ScoreLostByReconversion ==
    /\ NormalizeReturned
    /\ args.df.columns = << <<"a", " ", "b">> >>
    /\ args.df.rows = << <<Txt(<<"a">>)>> >>
    /\ args.categories = <<[name |-> "c1", questions |-> << <<"a", " ", "b">> >>],
                           [name |-> "c2", questions |-> << <<"a", " ", "b">> >>]>>
    /\ normalize_likert_response(Txt(<<"a">>), args.likert_mapping) = Num(1)
    /\ isna(ret.normalized_df.rows[1][1])

-----------------------------------------------------------------------------
(* data_processor.filter_data *)

\* the wildcard 'all'
ALL == <<"a", "l", "l">>

\* cell == value, for a text value: an absent cell equals nothing
CellEquals(cell, value) == cell.k = "text" /\ cell.t = value

\* df[df[column] == value]
RowsWhere(df, column, value) ==
    [df EXCEPT !.rows =
        SelectSeq(df.rows, LAMBDA row : CellEquals(row[ColumnIndex(df, column)], value))]

\* a faulty variant of filter_data: the location mask is applied to df, not to
\* filtered_df
filter_data_from_df(df, team_column, location_column, selected_team, selected_location) ==
    LET by_team == IF selected_team # ALL
                   THEN RowsWhere(df, team_column, selected_team)
                   ELSE df
    IN  IF selected_location # ALL
        THEN RowsWhere(df, location_column, selected_location)
        ELSE by_team

filter_data(df, team_column, location_column, selected_team, selected_location) ==
    LET by_team == IF selected_team # ALL
                   THEN RowsWhere(df, team_column, selected_team)
                   ELSE df
    IN  IF selected_location # ALL
        THEN RowsWhere(by_team, location_column, selected_location)
        ELSE by_team

TeamHeader == <<"T">>

LocationHeader == <<"L">>

IdHeader == <<"i", "d">>

\* the tables of at most n rows with a team, a location and a row-number
\* column; a team may be absent or literally "all"
GroupTables(n) ==
    UNION {{[columns |-> <<TeamHeader, LocationHeader, IdHeader>>,
             rows |-> [r \in 1..k |-> <<g[r][1], g[r][2], Num(r)>>]] :
               g \in [1..k -> {Txt(<<"A">>), Txt(ALL), NaN}
                                \X {Txt(<<"X">>), Txt(<<"Y">>)}]} : k \in 0..n}

InitFilter ==
    /\ mode = "filter_data"
    /\ args \in [df : GroupTables(MaxFilterRows),
                 team_column : {TeamHeader},
                 location_column : {LocationHeader},
                 selected_team : {<<"A">>, <<"B">>, ALL},
                 selected_location : {<<"X">>, ALL}]
    /\ ret = [filtered_df |-> EmptyTable]
    /\ called = 0
    /\ NoRun

CallFilter ==
    /\ mode = "filter_data"
    /\ called = 0
    /\ ret' = [filtered_df |-> filter_data(args.df, args.team_column, args.location_column,
                                           args.selected_team, args.selected_location)]
    /\ called' = 1
    /\ UNCHANGED <<mode, args, mainVars>>

NextFilter == CallFilter

SpecFilter == InitFilter /\ [][NextFilter]_vars

\* whether the row satisfies the selector of the call
Selected(row) ==
    /\ args.selected_team = ALL \/ CellEquals(row[1], args.selected_team)
    /\ args.selected_location = ALL \/ CellEquals(row[2], args.selected_location)

\* C7: filter_data returns exactly the rows whose team is the selected team
\* (or the selector is "all") and whose location is the selected location (or
\* the selector is "all"), in their original order; ("all", "all") returns
\* every row; "all" is the wildcard even for a row whose team is "all".
C7_FilterIsTheSelectedSubsequence ==
    (mode = "filter_data" /\ called = 1) =>
        LET out == ret.filtered_df.rows
        IN  /\ ret.filtered_df.columns = args.df.columns
            /\ \A r \in 1..Len(args.df.rows) :
                   Selected(args.df.rows[r]) <=>
                       \E o \in 1..Len(out) : out[o] = args.df.rows[r]
            /\ \A o \in 1..Len(out) :
                   /\ out[o] = args.df.rows[out[o][3].n]
                   /\ o > 1 => out[o - 1][3].n < out[o][3].n
            /\ (args.selected_team = ALL /\ args.selected_location = ALL)
                   => ret.filtered_df = args.df

\* both selectors are literal and the filter has kept a row and dropped an
\* earlier row of the selected location but another team
C7_Witness ==
    /\ mode = "filter_data"
    /\ called = 1
    /\ args.selected_team = <<"A">>
    /\ args.selected_location = <<"X">>
    /\ Len(args.df.rows) >= 2
    /\ args.df.rows[1][1] = Txt(ALL)
    /\ args.df.rows[1][2] = Txt(<<"X">>)
    /\ Len(ret.filtered_df.rows) = 1
    /\ ret.filtered_df.rows[1][3].n = 2

-----------------------------------------------------------------------------
(* analyzer.calculate_category_scores *)

\* the result of Series.mean(): [defined, value], not defined (NaN) when the
\* column holds no defined value
Undefined == [defined |-> FALSE, value |-> <<0, 1>>]

Defined(x) == [defined |-> TRUE, value |-> x]

\* the sum of the defined cells of a column, from cell i on
RECURSIVE SumDefined(_, _)
SumDefined(col, i) ==
    IF i > Len(col) THEN 0
    ELSE (IF isna(col[i]) THEN 0 ELSE col[i].n) + SumDefined(col, i + 1)

\* Series.notna().sum()
NotNaCount(col) == Cardinality({i \in 1..Len(col) : ~isna(col[i])})

\* Series.mean(): missing values are skipped
SeriesMean(col) ==
    IF NotNaCount(col) = 0 THEN Undefined
    ELSE Defined(RatNorm(SumDefined(col, 1), NotNaCount(col)))

RECURSIVE RatSum(_, _)
RatSum(xs, i) == IF i > Len(xs) THEN <<0, 1>> ELSE RatAdd(xs[i], RatSum(xs, i + 1))

\* np.mean of a non-empty list
NpMean(xs) == RatDivInt(RatSum(xs, 1), Len(xs))

\* a faulty variant of QuestionAverages: a question without a defined value is
\* counted as 0 instead of being left out
RECURSIVE QuestionAveragesZeroFilled(_, _, _)
QuestionAveragesZeroFilled(df, questions, i) ==
    IF i > Len(questions) THEN <<>>
    ELSE IF HasColumn(df, questions[i])
         THEN LET col_mean == SeriesMean(Column(df, questions[i]))
              IN  <<col_mean.value>> \o QuestionAveragesZeroFilled(df, questions, i + 1)
         ELSE QuestionAveragesZeroFilled(df, questions, i + 1)

\* the loop that fills question_averages, from question i on: the mean of
\* every question that is a column and has a defined mean
RECURSIVE QuestionAverages(_, _, _)
QuestionAverages(df, questions, i) ==
    IF i > Len(questions) THEN <<>>
    ELSE IF HasColumn(df, questions[i])
         THEN LET col_mean == SeriesMean(Column(df, questions[i]))
              IN  IF col_mean.defined
                  THEN <<col_mean.value>> \o QuestionAverages(df, questions, i + 1)
                  ELSE QuestionAverages(df, questions, i + 1)
         ELSE QuestionAverages(df, questions, i + 1)

\* a faulty variant of CategoryScoresFrom: a category whose questions have no
\* defined value is stored all the same, with the score 0
RECURSIVE CategoryScoresFromKeepsEmpty(_, _, _)
CategoryScoresFromKeepsEmpty(df, categories, i) ==
    IF i > Len(categories) THEN <<>>
    ELSE
        LET questions == categories[i].questions
            question_averages == QuestionAverages(df, questions, 1)
        IN  IF questions # <<>> /\ Len(df.rows) > 0
            THEN <<[name |-> categories[i].name,
                    score |-> IF question_averages # <<>>
                              THEN NpMean(question_averages) ELSE <<0, 1>>]>>
                     \o CategoryScoresFromKeepsEmpty(df, categories, i + 1)
            ELSE CategoryScoresFromKeepsEmpty(df, categories, i + 1)

\* calculate_category_scores, from category i on: the mapping category ->
\* score as the sequence of its [name, score] in insertion order
RECURSIVE CategoryScoresFrom(_, _, _)
CategoryScoresFrom(df, categories, i) ==
    IF i > Len(categories) THEN <<>>
    ELSE
        LET questions == categories[i].questions
            question_averages == QuestionAverages(df, questions, 1)
        IN  IF questions # <<>> /\ Len(df.rows) > 0 /\ question_averages # <<>>
            THEN <<[name |-> categories[i].name, score |-> NpMean(question_averages)]>>
                     \o CategoryScoresFrom(df, categories, i + 1)
            ELSE CategoryScoresFrom(df, categories, i + 1)

calculate_category_scores(df, categories) == CategoryScoresFrom(df, categories, 1)

\* d[key] for a mapping kept as a sequence of records with a name
Lookup(d, key) == d[CHOOSE i \in 1..Len(d) : d[i].name = key]

HasKey(d, key) == \E i \in 1..Len(d) : d[i].name = key

Keys(d) == {d[i].name : i \in 1..Len(d)}

-----------------------------------------------------------------------------
(* calculate_category_scores called on a numeric table and matched lists *)

Q1 == <<"a">>

Q2 == <<"b">>

\* a question that no table of the model has as a column
Q3 == <<"a", " ", "b">>

\* the numeric tables of at most n rows with the columns Q1 and Q2
ScoreTables(n) ==
    UNION {{[columns |-> <<Q1, Q2>>, rows |-> rows] :
               rows \in [1..k -> [1..2 -> {NaN, Num(1), Num(-2)}]]} : k \in 0..n}

\* the matched lists the scores are computed for
ScoreSchemas ==
    {<<[name |-> "c1", questions |-> <<Q1, Q2>>]>>,
     <<[name |-> "c1", questions |-> <<Q1>>], [name |-> "c2", questions |-> <<Q2, Q2, Q1>>]>>,
     <<[name |-> "c1", questions |-> <<>>], [name |-> "c2", questions |-> <<Q2, Q3>>]>>}

InitScores ==
    /\ mode = "calculate_category_scores"
    /\ args \in [df : ScoreTables(MaxScoreRows), categories : ScoreSchemas]
    /\ ret = [category_scores |-> <<>>]
    /\ called = 0
    /\ NoRun

CallScores ==
    /\ mode = "calculate_category_scores"
    /\ called = 0
    /\ ret' = [category_scores |-> calculate_category_scores(args.df, args.categories)]
    /\ called' = 1
    /\ UNCHANGED <<mode, args, mainVars>>

NextScores == CallScores

SpecScores == InitScores /\ [][NextScores]_vars

RECURSIVE IntSum(_, _)
IntSum(xs, i) == IF i > Len(xs) THEN 0 ELSE xs[i] + IntSum(xs, i + 1)

RECURSIVE IntProduct(_, _)
IntProduct(xs, i) == IF i > Len(xs) THEN 1 ELSE xs[i] * IntProduct(xs, i + 1)

\* the rows of df in which the column q holds a defined value; none when q is
\* no column of df
DefinedRows(df, q) ==
    IF HasColumn(df, q)
    THEN {r \in 1..Len(df.rows) : df.rows[r][ColumnIndex(df, q)].k = "num"}
    ELSE {}

\* score = <<p, d>> is the unweighted mean of the per-question means of the
\* questions qs over the rows of df, questions without a defined value left
\* out.  With c[k] and t[k] the count and the total of the defined values of
\* question k, and L the product of the non-zero counts, that is
\*     p * (number of questions with c[k] > 0) * L = d * SUM t[k] * (L / c[k]).
IsMeanOfQuestionMeans(score, df, qs) ==
    LET c == [k \in 1..Len(qs) |-> Cardinality(DefinedRows(df, qs[k]))]
        t == [k \in 1..Len(qs) |->
                 IntSum([r \in 1..Len(df.rows) |->
                            IF r \in DefinedRows(df, qs[k])
                            THEN df.rows[r][ColumnIndex(df, qs[k])].n ELSE 0], 1)]
        kept == Cardinality({k \in 1..Len(qs) : c[k] > 0})
        L == IntProduct([k \in 1..Len(qs) |-> IF c[k] > 0 THEN c[k] ELSE 1], 1)
    IN  score[1] * kept * L
            = score[2] * IntSum([k \in 1..Len(qs) |->
                                    IF c[k] > 0 THEN t[k] * (L \div c[k]) ELSE 0], 1)

\* C1: the score of a category is the unweighted mean of the means of its
\* questions, each mean taken over the defined values of the question in the
\* row set; a question without a defined value is left out, not counted as 0,
\* and every other question weighs the same however many answered it.
C1_ScoreIsMeanOfQuestionMeans ==
    (mode = "calculate_category_scores" /\ called = 1) =>
        \A i \in 1..Len(args.categories) :
            LET name == args.categories[i].name
                qs == args.categories[i].questions
            IN  /\ (\E k \in 1..Len(qs) : DefinedRows(args.df, qs[k]) # {})
                       => HasKey(ret.category_scores, name)
                /\ HasKey(ret.category_scores, name)
                       => IsMeanOfQuestionMeans(Lookup(ret.category_scores, name).score,
                                                args.df, qs)

\* the example of the specification, Q1 = [1, 1, undefined] and Q2 without a
\* defined value, has been scored 1.0
C1_Witness ==
    /\ mode = "calculate_category_scores"
    /\ called = 1
    /\ args.categories = <<[name |-> "c1", questions |-> <<Q1, Q2>>]>>
    /\ args.df.rows = << <<Num(1), NaN>>, <<Num(1), NaN>>, <<NaN, NaN>> >>
    /\ ret.category_scores = <<[name |-> "c1", score |-> <<1, 1>>]>>

\* a category has been scored whose questions have different numbers of
\* answers, so that the mean of the question means differs from the mean of
\* all answers
C1_WitnessWeights ==
    /\ mode = "calculate_category_scores"
    /\ called = 1
    /\ args.categories = <<[name |-> "c1", questions |-> <<Q1, Q2>>]>>
    /\ args.df.rows = << <<Num(1), Num(-2)>>, <<Num(1), NaN>> >>
    /\ ret.category_scores = <<[name |-> "c1", score |-> <<-1, 2>>]>>

\* C14: a category is in the mapping calculate_category_scores returns if and
\* only if one of its matched questions has a defined value in the row set;
\* with an empty matched list, or no defined value in any of its questions,
\* the category is absent, and a category that is present has a number as its
\* score, once.
C14_ScoredIffSomeValueIsDefined ==
    (mode = "calculate_category_scores" /\ called = 1) =>
        /\ \A i \in 1..Len(args.categories) :
               LET name == args.categories[i].name
                   qs == args.categories[i].questions
                   defined == \E k \in 1..Len(qs) : DefinedRows(args.df, qs[k]) # {}
               IN  /\ HasKey(ret.category_scores, name) <=> defined
                   /\ (qs = <<>> => ~HasKey(ret.category_scores, name))
        /\ \A m \in 1..Len(ret.category_scores) :
               /\ \E i \in 1..Len(args.categories) :
                      ret.category_scores[m].name = args.categories[i].name
               /\ ret.category_scores[m].score \in Int \X (Nat \ {0})
               /\ \A n \in 1..Len(ret.category_scores) :
                      ret.category_scores[n].name = ret.category_scores[m].name => n = m

\* scores have been computed over two rows for a category without a matched
\* question and a category whose questions have no defined value in any row:
\* the mapping is empty
C14_Witness ==
    /\ mode = "calculate_category_scores"
    /\ called = 1
    /\ args.categories = <<[name |-> "c1", questions |-> <<>>],
                           [name |-> "c2", questions |-> <<Q2, Q3>>]>>
    /\ args.df.rows = << <<Num(1), NaN>>, <<Num(-2), NaN>> >>
    /\ ret.category_scores = <<>>

-----------------------------------------------------------------------------
(* analyzer.compare_with_overall *)

\* np.mean(question_averages) if question_averages else 0
MeanOrZero(question_averages) ==
    IF question_averages # <<>> THEN NpMean(question_averages) ELSE <<0, 1>>

\* a faulty variant of ComparisonsFrom: a category without a filtered score
\* gets no comparison, instead of the score 0
RECURSIVE ComparisonsFromScoredOnly(_, _, _, _)
ComparisonsFromScoredOnly(filtered_df, overall_df, categories, i) ==
    IF i > Len(categories) THEN <<>>
    ELSE
        LET questions == categories[i].questions
            question_averages ==
                IF Len(filtered_df.rows) > 0
                THEN QuestionAverages(filtered_df, questions, 1) ELSE <<>>
            filtered_avg == MeanOrZero(question_averages)
            overall_avg == MeanOrZero(QuestionAverages(overall_df, questions, 1))
            difference == RatSub(filtered_avg, overall_avg)
            rest == ComparisonsFromScoredOnly(filtered_df, overall_df, categories, i + 1)
        IN  IF questions # <<>> /\ question_averages # <<>>
            THEN <<[name |-> categories[i].name,
                    filtered_score |-> filtered_avg,
                    overall_score |-> overall_avg,
                    difference |-> difference,
                    status |-> get_performance_status(difference,
                                   DefaultSignificantThreshold, DefaultSimilarThreshold)]>>
                     \o rest
            ELSE rest

\* compare_with_overall, from category i on: the mapping category ->
\* comparison as the sequence of its entries in insertion order.  The status
\* comes from get_performance_status(difference), called with the defaults of
\* its two threshold parameters.
RECURSIVE ComparisonsFrom(_, _, _, _)
ComparisonsFrom(filtered_df, overall_df, categories, i) ==
    IF i > Len(categories) THEN <<>>
    ELSE
        LET questions == categories[i].questions
            filtered_avg ==
                IF Len(filtered_df.rows) > 0
                THEN MeanOrZero(QuestionAverages(filtered_df, questions, 1))
                ELSE <<0, 1>>
            overall_avg == MeanOrZero(QuestionAverages(overall_df, questions, 1))
            difference == RatSub(filtered_avg, overall_avg)
        IN  IF questions # <<>>
            THEN <<[name |-> categories[i].name,
                    filtered_score |-> filtered_avg,
                    overall_score |-> overall_avg,
                    difference |-> difference,
                    status |-> get_performance_status(difference,
                                   DefaultSignificantThreshold, DefaultSimilarThreshold)]>>
                     \o ComparisonsFrom(filtered_df, overall_df, categories, i + 1)
            ELSE ComparisonsFrom(filtered_df, overall_df, categories, i + 1)

compare_with_overall(filtered_df, overall_df, categories) ==
    ComparisonsFrom(filtered_df, overall_df, categories, 1)

-----------------------------------------------------------------------------
(* compare_with_overall called on a numeric table and a selection of its rows *)

\* the rows of a table whose position is in keep, in their order
RECURSIVE Pick(_, _, _)
Pick(rows, keep, i) ==
    IF i > Len(rows) THEN <<>>
    ELSE (IF i \in keep THEN <<rows[i]>> ELSE <<>>) \o Pick(rows, keep, i + 1)

\* the numeric tables with the one column Q1 and at most n rows
NarrowTables(n) ==
    UNION {{[columns |-> <<Q1>>, rows |-> rows] :
               rows \in [1..k -> [1..1 -> {NaN, Num(1), Num(-1), Num(0)}]]} : k \in 0..n}

\* the numeric tables with the columns Q1 and Q2 and at most n rows
WideTables(n) ==
    UNION {{[columns |-> <<Q1, Q2>>, rows |-> rows] :
               rows \in [1..k -> [1..2 -> {NaN, Num(1), Num(-1)}]]} : k \in 0..n}

\* a table with every selection of its rows, as (filtered_df, overall_df)
Selections(tables) ==
    UNION {{[filtered_df |-> [overall_df EXCEPT !.rows = Pick(overall_df.rows, keep, 1)],
             overall_df |-> overall_df] :
               keep \in SUBSET (1..Len(overall_df.rows))} : overall_df \in tables}

\* the matched lists the comparisons are computed for
CompareSchemas ==
    {<<[name |-> "c1", questions |-> <<Q1>>]>>,
     <<[name |-> "c1", questions |-> <<Q1, Q2>>], [name |-> "c2", questions |-> <<>>]>>,
     <<[name |-> "c1", questions |-> <<Q2>>], [name |-> "c2", questions |-> <<Q1>>]>>}

InitCompare ==
    /\ mode = "compare_with_overall"
    /\ \E pair \in Selections(NarrowTables(MaxNarrowRows) \cup WideTables(MaxWideRows)),
          categories \in CompareSchemas :
           args = [filtered_df |-> pair.filtered_df,
                   overall_df |-> pair.overall_df,
                   categories |-> categories]
    /\ ret = [comparisons |-> <<>>]
    /\ called = 0
    /\ NoRun

CallCompare ==
    /\ mode = "compare_with_overall"
    /\ called = 0
    /\ ret' = [comparisons |-> compare_with_overall(args.filtered_df, args.overall_df,
                                                    args.categories)]
    /\ called' = 1
    /\ UNCHANGED <<mode, args, mainVars>>

NextCompare == CallCompare

SpecCompare == InitCompare /\ [][NextCompare]_vars

\* the category with the questions qs has a score over the rows of df
HasCategoryScore(df, qs) == \E k \in 1..Len(qs) : DefinedRows(df, qs[k]) # {}

\* compare_with_overall has returned
CompareReturned == mode = "compare_with_overall" /\ called = 1

\* what compare_with_overall does guarantee: every category with a matched
\* question has a comparison; each of its two scores is the category score
\* over its row set where that score exists and 0 where it does not; the
\* difference is filtered minus overall and the status is its band under the
\* thresholds 0.2 and 0.1
ComparisonWithZeroForNoScore ==
    CompareReturned =>
        /\ \A i \in 1..Len(ret.comparisons) :
               \E j \in 1..Len(args.categories) :
                   /\ ret.comparisons[i].name = args.categories[j].name
                   /\ args.categories[j].questions # <<>>
        /\ \A i \in 1..Len(args.categories) :
               LET name == args.categories[i].name
                   qs == args.categories[i].questions
               IN  qs # <<>> =>
                       /\ HasKey(ret.comparisons, name)
                       /\ LET c == Lookup(ret.comparisons, name)
                          IN  /\ IF HasCategoryScore(args.filtered_df, qs)
                                 THEN IsMeanOfQuestionMeans(c.filtered_score,
                                                            args.filtered_df, qs)
                                 ELSE c.filtered_score = <<0, 1>>
                              /\ IF HasCategoryScore(args.overall_df, qs)
                                 THEN IsMeanOfQuestionMeans(c.overall_score,
                                                            args.overall_df, qs)
                                 ELSE c.overall_score = <<0, 1>>
                              /\ c.difference = RatSub(c.filtered_score, c.overall_score)
                              /\ Band(c.difference, DefaultSignificantThreshold,
                                      DefaultSimilarThreshold) = {c.status}

\* C13 as claimed: for every category with a matched question filtered_score
\* is the category score over the filtered rows (0 if there is no filtered
\* row), overall_score is the category score over all rows, difference is
\* filtered_score - overall_score and status is the band of the difference.
C13_ComparisonOfCategoryScores ==
    CompareReturned =>
        \A i \in 1..Len(args.categories) :
            LET name == args.categories[i].name
                qs == args.categories[i].questions
            IN  qs # <<>> =>
                    /\ HasKey(ret.comparisons, name)
                    /\ LET c == Lookup(ret.comparisons, name)
                       IN  /\ IF args.filtered_df.rows = <<>>
                              THEN c.filtered_score = <<0, 1>>
                              ELSE /\ HasCategoryScore(args.filtered_df, qs)
                                   /\ IsMeanOfQuestionMeans(c.filtered_score,
                                                            args.filtered_df, qs)
                           /\ HasCategoryScore(args.overall_df, qs)
                           /\ IsMeanOfQuestionMeans(c.overall_score, args.overall_df, qs)
                           /\ c.difference = RatSub(c.filtered_score, c.overall_score)
                           /\ Band(c.difference, DefaultSignificantThreshold,
                                   DefaultSimilarThreshold) = {c.status}

\* the example of the specification: one question scored [1, -1, 0, 1], the
\* first two rows selected, compared as 0.0 against 0.25
C13_Example ==
    /\ CompareReturned
    /\ args.categories = <<[name |-> "c1", questions |-> <<Q1>>]>>
    /\ args.overall_df.rows = << <<Num(1)>>, <<Num(-1)>>, <<Num(0)>>, <<Num(1)>> >>
    /\ args.filtered_df.rows = << <<Num(1)>>, <<Num(-1)>> >>
    /\ ret.comparisons = <<[name |-> "c1",
                            filtered_score |-> <<0, 1>>,
                            overall_score |-> <<1, 4>>,
                            difference |-> <<-1, 4>>,
                            status |-> "significantly_below"]>>

\* a selected row set that has rows but no defined value of the category's
\* question has been compared as 0 against a defined overall score
C13_ZeroForUndefinedScore ==
    /\ CompareReturned
    /\ args.categories = <<[name |-> "c1", questions |-> <<Q1>>]>>
    /\ args.overall_df.rows = << <<Num(1)>>, <<NaN>> >>
    /\ args.filtered_df.rows = << <<NaN>> >>
    /\ ret.comparisons = <<[name |-> "c1",
                            filtered_score |-> <<0, 1>>,
                            overall_score |-> <<1, 1>>,
                            difference |-> <<-1, 1>>,
                            status |-> "significantly_below"]>>

-----------------------------------------------------------------------------
(* data_processor.collect_comments *)

\* the shortest comment that is kept
MinCommentLength == 3

\* 'Unknown'
Unknown == Txt(<<"U", "n", "k", "n", "o", "w", "n">>)

\* a faulty variant of CommentsOfColumn: the length of the comment is not
\* tested, only that it is not blank
RECURSIVE CommentsOfColumnKeepsShort(_, _, _, _, _)
CommentsOfColumnKeepsShort(df, comment_column, team_column, location_column, i) ==
    IF i > Len(df.rows) THEN <<>>
    ELSE
        LET row == df.rows[i]
            comment_text == row[ColumnIndex(df, comment_column)]
            rest == CommentsOfColumnKeepsShort(df, comment_column, team_column,
                                               location_column, i + 1)
        IN  IF isna(comment_text) \/ Strip(Str(comment_text)) = <<>>
            THEN rest
            ELSE <<[text |-> Strip(Str(comment_text)),
                    team |-> IF HasColumn(df, team_column)
                             THEN row[ColumnIndex(df, team_column)] ELSE Unknown,
                    location |-> IF HasColumn(df, location_column)
                                 THEN row[ColumnIndex(df, location_column)] ELSE Unknown]>>
                     \o rest

\* the rows loop of collect_comments, from row i on
RECURSIVE CommentsOfColumn(_, _, _, _, _)
CommentsOfColumn(df, comment_column, team_column, location_column, i) ==
    IF i > Len(df.rows) THEN <<>>
    ELSE
        LET row == df.rows[i]
            comment_text == row[ColumnIndex(df, comment_column)]
            rest == CommentsOfColumn(df, comment_column, team_column, location_column, i + 1)
        IN  IF \/ isna(comment_text)
               \/ Strip(Str(comment_text)) = <<>>
               \/ Len(Strip(Str(comment_text))) < MinCommentLength
            THEN rest
            ELSE <<[text |-> Strip(Str(comment_text)),
                    team |-> IF HasColumn(df, team_column)
                             THEN row[ColumnIndex(df, team_column)] ELSE Unknown,
                    location |-> IF HasColumn(df, location_column)
                                 THEN row[ColumnIndex(df, location_column)] ELSE Unknown]>>
                     \o rest

\* collect_comments, from entry i of comment_fields on; comment_fields is the
\* sequence of [name, column] in the configuration's order
RECURSIVE CommentsFrom(_, _, _, _, _)
CommentsFrom(df, comment_fields, team_column, location_column, i) ==
    IF i > Len(comment_fields) THEN <<>>
    ELSE
        LET rest == CommentsFrom(df, comment_fields, team_column, location_column, i + 1)
            category_comments ==
                CommentsOfColumn(df, comment_fields[i].column, team_column, location_column, 1)
        IN  IF ~HasColumn(df, comment_fields[i].column) THEN rest
            ELSE IF category_comments # <<>>
                 THEN <<[name |-> comment_fields[i].name,
                         comments |-> category_comments,
                         count |-> Len(category_comments)]>> \o rest
                 ELSE rest

collect_comments(df, comment_fields, team_column, location_column) ==
    CommentsFrom(df, comment_fields, team_column, location_column, 1)

-----------------------------------------------------------------------------
(* analyzer.generate_detailed_statistics *)

\* a faulty variant of QuestionDetail: the response counts are the numbers of
\* rows, whether or not they hold a value for the question
QuestionDetailCountsRows(filtered_df, overall_df, question) ==
    LET filtered_score ==
            IF Len(filtered_df.rows) > 0
            THEN SeriesMean(Column(filtered_df, question))
            ELSE Undefined
        overall_score == SeriesMean(Column(overall_df, question))
    IN  [name |-> question,
         filtered_score |-> filtered_score,
         overall_score |-> overall_score,
         difference |-> IF filtered_score.defined /\ overall_score.defined
                        THEN Defined(RatSub(filtered_score.value, overall_score.value))
                        ELSE Undefined,
         filtered_responses |-> Len(filtered_df.rows),
         total_responses |-> Len(overall_df.rows)]

\* a faulty variant of QuestionDetail: filtered_responses is the number of
\* filtered rows, answered or not
QuestionDetailCountsFilteredRows(filtered_df, overall_df, question) ==
    LET filtered_score ==
            IF Len(filtered_df.rows) > 0
            THEN SeriesMean(Column(filtered_df, question))
            ELSE Undefined
        overall_score == SeriesMean(Column(overall_df, question))
    IN  [name |-> question,
         filtered_score |-> filtered_score,
         overall_score |-> overall_score,
         difference |-> IF filtered_score.defined /\ overall_score.defined
                        THEN Defined(RatSub(filtered_score.value, overall_score.value))
                        ELSE Undefined,
         filtered_responses |-> Len(filtered_df.rows),
         total_responses |-> NotNaCount(Column(overall_df, question))]

\* the detail of one question: a score is [defined, value], not defined for
\* None and for NaN
QuestionDetail(filtered_df, overall_df, question) ==
    LET filtered_score ==
            IF Len(filtered_df.rows) > 0
            THEN SeriesMean(Column(filtered_df, question))
            ELSE Undefined
        filtered_responses ==
            IF Len(filtered_df.rows) > 0
            THEN NotNaCount(Column(filtered_df, question))
            ELSE 0
        overall_score == SeriesMean(Column(overall_df, question))
    IN  [name |-> question,
         filtered_score |-> filtered_score,
         overall_score |-> overall_score,
         difference |-> IF filtered_score.defined /\ overall_score.defined
                        THEN Defined(RatSub(filtered_score.value, overall_score.value))
                        ELSE Undefined,
         filtered_responses |-> filtered_responses,
         total_responses |-> NotNaCount(Column(overall_df, question))]

\* the questions loop of the detailed question analysis, from question i on:
\* category_questions, keyed by question, so a question listed again
\* overwrites its own entry
RECURSIVE CategoryQuestions(_, _, _, _)
CategoryQuestions(filtered_df, overall_df, questions, i) ==
    IF i > Len(questions) THEN <<>>
    ELSE IF /\ HasColumn(filtered_df, questions[i])
            /\ \A j \in 1..(i - 1) : questions[j] # questions[i]
         THEN <<QuestionDetail(filtered_df, overall_df, questions[i])>>
                  \o CategoryQuestions(filtered_df, overall_df, questions, i + 1)
         ELSE CategoryQuestions(filtered_df, overall_df, questions, i + 1)

RECURSIVE QuestionDetailsFrom(_, _, _, _)
QuestionDetailsFrom(filtered_df, overall_df, categories, i) ==
    IF i > Len(categories) THEN <<>>
    ELSE
        LET category_questions ==
                CategoryQuestions(filtered_df, overall_df, categories[i].questions, 1)
            rest == QuestionDetailsFrom(filtered_df, overall_df, categories, i + 1)
        IN  IF category_questions # <<>>
            THEN <<[name |-> categories[i].name, questions |-> category_questions]>> \o rest
            ELSE rest

\* a faulty variant of generate_detailed_statistics: category_performance is read
\* off the comparisons, whose filtered score is 0 for an empty row set
generate_detailed_statistics_from_comparisons(filtered_df, overall_df, categories, comment_fields, team_column, location_column, selected_team, selected_location) ==
    LET comparisons == compare_with_overall(filtered_df, overall_df, categories)
    IN  [metadata |-> [selected_team |-> selected_team,
                       selected_location |-> selected_location,
                       filtered_responses |-> Len(filtered_df.rows),
                       total_responses |-> Len(overall_df.rows)],
         category_performance |->
             [i \in 1..Len(comparisons) |->
                 [name |-> comparisons[i].name, score |-> comparisons[i].filtered_score]],
         comparisons |-> comparisons,
         question_details |-> QuestionDetailsFrom(filtered_df, overall_df, categories, 1),
         comments |-> collect_comments(filtered_df, comment_fields, team_column,
                                       location_column)]

generate_detailed_statistics(filtered_df, overall_df, categories, comment_fields, team_column, location_column, selected_team, selected_location) ==
    [metadata |-> [selected_team |-> selected_team,
                   selected_location |-> selected_location,
                   filtered_responses |-> Len(filtered_df.rows),
                   total_responses |-> Len(overall_df.rows)],
     category_performance |-> calculate_category_scores(filtered_df, categories),
     comparisons |-> compare_with_overall(filtered_df, overall_df, categories),
     question_details |-> QuestionDetailsFrom(filtered_df, overall_df, categories, 1),
     comments |-> collect_comments(filtered_df, comment_fields, team_column,
                                   location_column)]

-----------------------------------------------------------------------------
(* analyzer.get_recommendations *)

NoData == [kind |-> "no_data", category |-> "", count |-> 0]

CategoryFocus(worst_category) ==
    [kind |-> "category_focus", category |-> worst_category, count |-> 0]

CombinationImpact(n) == [kind |-> "combination_impact", category |-> "", count |-> n]

NoIssues == [kind |-> "no_issues", category |-> "", count |-> 0]

BelowStatuses == {"significantly_below", "below"}

\* a faulty variant of WorstCategory: on a tie the last category with the
\* lowest filtered score
WorstCategoryLastOnTies(comparisons) ==
    LET w == CHOOSE i \in 1..Len(comparisons) :
                 /\ \A j \in 1..Len(comparisons) :
                        RatLE(comparisons[i].filtered_score, comparisons[j].filtered_score)
                 /\ \A j \in (i + 1)..Len(comparisons) :
                        RatLT(comparisons[i].filtered_score, comparisons[j].filtered_score)
    IN  comparisons[w]

\* min(comparisons.keys(), key = filtered_score): the first category, in the
\* mapping's order, with the lowest filtered score
WorstCategory(comparisons) ==
    LET w == CHOOSE i \in 1..Len(comparisons) :
                 /\ \A j \in 1..Len(comparisons) :
                        RatLE(comparisons[i].filtered_score, comparisons[j].filtered_score)
                 /\ \A j \in 1..(i - 1) :
                        RatLT(comparisons[i].filtered_score, comparisons[j].filtered_score)
    IN  comparisons[w]

\* a faulty variant of RecommendationsForData: the generic message closes the
\* list whatever the list holds
RecommendationsForDataAlwaysGeneric(stats) ==
    LET comparisons == stats.comparisons
        focus ==
            IF comparisons # <<>> /\ WorstCategory(comparisons).status \in BelowStatuses
            THEN <<CategoryFocus(WorstCategory(comparisons).name)>>
            ELSE <<>>
        below_average_categories ==
            SelectSeq(comparisons, LAMBDA comp : comp.status \in BelowStatuses)
        impact ==
            IF /\ stats.metadata.selected_team # ALL
               /\ stats.metadata.selected_location # ALL
               /\ below_average_categories # <<>>
            THEN <<CombinationImpact(Len(below_average_categories))>>
            ELSE <<>>
    IN  focus \o impact \o <<NoIssues>>

\* a faulty variant of RecommendationsForData: the combination note is made
\* as soon as one of the two selectors is not 'all'
RecommendationsForDataEitherSelector(stats) ==
    LET comparisons == stats.comparisons
        focus ==
            IF comparisons # <<>> /\ WorstCategory(comparisons).status \in BelowStatuses
            THEN <<CategoryFocus(WorstCategory(comparisons).name)>>
            ELSE <<>>
        below_average_categories ==
            SelectSeq(comparisons, LAMBDA comp : comp.status \in BelowStatuses)
        impact ==
            IF /\ \/ stats.metadata.selected_team # ALL
                  \/ stats.metadata.selected_location # ALL
               /\ below_average_categories # <<>>
            THEN <<CombinationImpact(Len(below_average_categories))>>
            ELSE <<>>
        recommendations == focus \o impact
    IN  IF recommendations = <<>> THEN <<NoIssues>> ELSE recommendations

\* the body of get_recommendations after the test for an empty row set
RecommendationsForData(stats) ==
    LET comparisons == stats.comparisons
        focus ==
            IF comparisons # <<>> /\ WorstCategory(comparisons).status \in BelowStatuses
            THEN <<CategoryFocus(WorstCategory(comparisons).name)>>
            ELSE <<>>
        below_average_categories ==
            SelectSeq(comparisons, LAMBDA comp : comp.status \in BelowStatuses)
        impact ==
            IF /\ stats.metadata.selected_team # ALL
               /\ stats.metadata.selected_location # ALL
               /\ below_average_categories # <<>>
            THEN <<CombinationImpact(Len(below_average_categories))>>
            ELSE <<>>
        recommendations == focus \o impact
    IN  IF recommendations = <<>> THEN <<NoIssues>> ELSE recommendations

\* a faulty variant of get_recommendations: the no-data message is appended and the
\* function goes on instead of returning
get_recommendations_no_return(stats, categories) ==
    IF stats.metadata.filtered_responses = 0
    THEN <<NoData>> \o RecommendationsForData(stats)
    ELSE RecommendationsForData(stats)

get_recommendations(stats, categories) ==
    IF stats.metadata.filtered_responses = 0
    THEN <<NoData>>
    ELSE RecommendationsForData(stats)

-----------------------------------------------------------------------------
(* get_recommendations called on an arbitrary statistics bundle *)

\* comparisons of at most two categories, of any score and status
BundleComparisons ==
    UNION {{[i \in 1..k |-> [name |-> CategoryNames[i],
                             filtered_score |-> e[i][1],
                             overall_score |-> <<0, 1>>,
                             difference |-> e[i][1],
                             status |-> e[i][2]]] :
               e \in [1..k -> {<<-1, 1>>, <<0, 1>>, <<1, 2>>} \X Statuses]} :
           k \in 0..Len(CategoryNames)}

Bundles(n) ==
    {[metadata |-> [selected_team |-> t, selected_location |-> l,
                    filtered_responses |-> f, total_responses |-> n],
      category_performance |-> <<>>,
      comparisons |-> c,
      question_details |-> <<>>,
      comments |-> <<>>] :
        t \in {ALL, <<"A">>}, l \in {ALL, <<"X">>}, f \in 0..n, c \in BundleComparisons}

InitRecommend ==
    /\ mode = "get_recommendations"
    /\ args \in [stats : Bundles(MaxBundleRows), categories : {<<>>}]
    /\ ret = [recommendations |-> <<>>]
    /\ called = 0
    /\ NoRun

CallRecommend ==
    /\ mode = "get_recommendations"
    /\ called = 0
    /\ ret' = [recommendations |-> get_recommendations(args.stats, args.categories)]
    /\ called' = 1
    /\ UNCHANGED <<mode, args, mainVars>>

NextRecommend == CallRecommend

SpecRecommend == InitRecommend /\ [][NextRecommend]_vars

\* C10: whenever the bundle's filtered row count is zero, get_recommendations
\* returns exactly one recommendation, the one saying that no data is
\* available, whatever the comparisons, statuses and selectors are.
C10_NoDataIsTheOnlyRecommendation ==
    (/\ mode = "get_recommendations"
     /\ called = 1
     /\ args.stats.metadata.filtered_responses = 0) =>
        /\ Len(ret.recommendations) = 1
        /\ ret.recommendations[1].kind = "no_data"

\* the recommendations of a bundle with no filtered row, two literal selectors
\* and a lowest category that is below have been derived
C10_Witness ==
    /\ mode = "get_recommendations"
    /\ called = 1
    /\ args.stats.metadata.filtered_responses = 0
    /\ args.stats.metadata.selected_team # ALL
    /\ args.stats.metadata.selected_location # ALL
    /\ Len(args.stats.comparisons) = 2
    /\ args.stats.comparisons[1].status = "significantly_below"
    /\ args.stats.comparisons[1].filtered_score = <<-1, 1>>
    /\ args.stats.comparisons[2].filtered_score = <<0, 1>>
    /\ ret.recommendations = <<NoData>>

\* get_recommendations has returned for a bundle with filtered rows
RecommendedForData ==
    /\ mode = "get_recommendations"
    /\ called = 1
    /\ args.stats.metadata.filtered_responses # 0

\* the recommendations of the given kind, in their order
OfKind(kind) == SelectSeq(ret.recommendations, LAMBDA rec : rec.kind = kind)

\* position i of the comparisons holds the lowest filtered score, and no
\* earlier position holds it
IsLowestFirst(comparisons, i) ==
    /\ \A j \in 1..Len(comparisons) :
           ~Above(comparisons[i].filtered_score, comparisons[j].filtered_score)
    /\ \A j \in 1..(i - 1) :
           Above(comparisons[j].filtered_score, comparisons[i].filtered_score)

\* C19: with a non-zero filtered row count, a targeted recommendation is made
\* if and only if the category with the lowest filtered_score among the
\* comparisons, the first one on ties, has the status below or
\* significantly_below; it names that category, and there is at most one.
C19_TargetsTheLowestCategory ==
    RecommendedForData =>
        LET comparisons == args.stats.comparisons
            lowest == {i \in 1..Len(comparisons) : IsLowestFirst(comparisons, i)}
            targeted == OfKind("category_focus")
        IN  /\ Len(targeted) <= 1
            /\ Len(targeted) = 1 <=>
                   \E i \in lowest :
                       comparisons[i].status \in {"below", "significantly_below"}
            /\ Len(targeted) = 1 =>
                   \E i \in lowest : targeted[1].category = comparisons[i].name

\* recommendations have been made for two categories of the same filtered
\* score, the first below and the second similar: the first is named
C19_Witness ==
    /\ RecommendedForData
    /\ Len(args.stats.comparisons) = 2
    /\ args.stats.comparisons[1].filtered_score = args.stats.comparisons[2].filtered_score
    /\ args.stats.comparisons[1].status = "below"
    /\ args.stats.comparisons[2].status = "similar"
    /\ OfKind("category_focus") = <<CategoryFocus("c1")>>

\* C20: with a non-zero filtered row count, a combination-impact note is made
\* if and only if neither the team selector nor the location selector is
\* "all" and the number of categories whose status is below or
\* significantly_below is positive; the note reports that number.
C20_CombinationImpact ==
    RecommendedForData =>
        LET comparisons == args.stats.comparisons
            below == {i \in 1..Len(comparisons) :
                         comparisons[i].status \in {"below", "significantly_below"}}
            notes == OfKind("combination_impact")
        IN  /\ Len(notes) <= 1
            /\ Len(notes) = 1 <=>
                   /\ args.stats.metadata.selected_team # ALL
                   /\ args.stats.metadata.selected_location # ALL
                   /\ Cardinality(below) > 0
            /\ Len(notes) = 1 => notes[1].count = Cardinality(below)

\* recommendations have been made for a literal team and a literal location
\* with two categories below: the note reports 2, after the targeted
\* recommendation
C20_Witness ==
    /\ RecommendedForData
    /\ args.stats.metadata.selected_team # ALL
    /\ args.stats.metadata.selected_location # ALL
    /\ Len(args.stats.comparisons) = 2
    /\ args.stats.comparisons[1].status = "below"
    /\ args.stats.comparisons[2].status = "significantly_below"
    /\ Len(ret.recommendations) = 2
    /\ ret.recommendations[2] = CombinationImpact(2)

\* get_recommendations has returned
Recommended == mode = "get_recommendations" /\ called = 1

\* C21: get_recommendations never returns an empty list; the generic "no
\* issues identified" message is in it if and only if the filtered row count
\* is non-zero and neither the targeted recommendation nor the
\* combination-impact note was made, and it is then the only element; the
\* list has one or two elements.
C21_NeverEmptyAndGenericOnlyAlone ==
    Recommended =>
        /\ Len(ret.recommendations) \in 1..2
        /\ OfKind("no_issues") # <<>> <=>
               /\ args.stats.metadata.filtered_responses # 0
               /\ OfKind("category_focus") = <<>>
               /\ OfKind("combination_impact") = <<>>
        /\ OfKind("no_issues") # <<>> => ret.recommendations = <<NoIssues>>
        /\ \A i \in 1..Len(ret.recommendations) :
               ret.recommendations[i].kind
                   \in {"no_data", "category_focus", "combination_impact", "no_issues"}

\* recommendations have been made for filtered rows, a literal team and a
\* literal location, and two categories neither of which is below: the
\* generic message alone
C21_Witness ==
    /\ RecommendedForData
    /\ args.stats.metadata.selected_team # ALL
    /\ args.stats.metadata.selected_location # ALL
    /\ Len(args.stats.comparisons) = 2
    /\ args.stats.comparisons[1].status = "similar"
    /\ args.stats.comparisons[2].status = "above"
    /\ ret.recommendations = <<NoIssues>>

\* C26 as claimed: for every bundle with a non-zero filtered row count in
\* which some category is below or significantly_below, the recommendations
\* hold a targeted recommendation or a combination-impact note, and not the
\* generic "no specific issues identified" message.
C26_GenericOnlyWhenNothingIsBelow ==
    (/\ RecommendedForData
     /\ \E i \in 1..Len(args.stats.comparisons) :
            args.stats.comparisons[i].status \in {"below", "significantly_below"}) =>
        /\ OfKind("category_focus") # <<>> \/ OfKind("combination_impact") # <<>>
        /\ OfKind("no_issues") = <<>>

\* recommendations have been made for all teams where the category with the
\* lowest filtered score is similar to its overall score and the other
\* category is significantly below its own: the generic message alone
C26_GenericDespiteBelow ==
    /\ RecommendedForData
    /\ args.stats.metadata.selected_team = ALL
    /\ Len(args.stats.comparisons) = 2
    /\ args.stats.comparisons[1].filtered_score = <<-1, 1>>
    /\ args.stats.comparisons[1].status = "similar"
    /\ args.stats.comparisons[2].filtered_score = <<0, 1>>
    /\ args.stats.comparisons[2].status = "significantly_below"
    /\ ret.recommendations = <<NoIssues>>

-----------------------------------------------------------------------------
(* config_manager: validate_config and get_analysis_settings *)

\* A configuration is [sections, column_keys, team_column, location_column,
\* categories, comment_fields, likert_mapping, analysis]: the top-level
\* sections present, the keys present under columns, and the values; analysis
\* is [keys, significant_difference_threshold, similar_threshold].

\* a faulty variant of validate_config: an empty categories section passes
validate_config_allows_empty_categories(config) ==
    IF \E section \in {"data_source", "columns", "categories"} :
           section \notin config.sections
    THEN "ValueError"
    ELSE IF \E column \in {"team_column", "location_column"} :
                column \notin config.column_keys
    THEN "ValueError"
    ELSE "ok"

\* validate_config: "ok", or the ValueError it raises
validate_config(config) ==
    IF \E section \in {"data_source", "columns", "categories"} :
           section \notin config.sections
    THEN "ValueError"
    ELSE IF \E column \in {"team_column", "location_column"} :
                column \notin config.column_keys
    THEN "ValueError"
    ELSE IF config.categories = <<>>
    THEN "ValueError"
    ELSE "ok"

\* get_analysis_settings: the configured thresholds, the defaults where the
\* configuration omits them
get_analysis_settings(config) ==
    [significant_difference_threshold |->
         IF "significant_difference_threshold" \in config.analysis.keys
         THEN config.analysis.significant_difference_threshold
         ELSE DefaultSignificantThreshold,
     similar_threshold |->
         IF "similar_threshold" \in config.analysis.keys
         THEN config.analysis.similar_threshold
         ELSE DefaultSimilarThreshold]

-----------------------------------------------------------------------------
(* data_processor: validate_columns and analyze_available_groups *)

\* a faulty variant of MissingColumns: only the team column is looked for
MissingColumnsTeamOnly(df, team_column, location_column) ==
    IF ~HasColumn(df, team_column) THEN <<team_column>> ELSE <<>>

\* the list missing_columns that validate_columns builds
MissingColumns(df, team_column, location_column) ==
    (IF ~HasColumn(df, team_column) THEN <<team_column>> ELSE <<>>)
    \o (IF ~HasColumn(df, location_column) THEN <<location_column>> ELSE <<>>)

\* validate_columns: "ok", or the ValueError it raises
validate_columns(df, team_column, location_column) ==
    LET missing_columns == MissingColumns(df, team_column, location_column)
    IN  IF missing_columns # <<>> THEN "ValueError" ELSE "ok"

\* df[column].dropna().unique(), as texts
UniqueValues(df, column) ==
    {Column(df, column)[r].t : r \in {x \in 1..Len(df.rows) : ~isna(Column(df, column)[x])}}

\* analyze_available_groups: the names under 'teams' and under 'locations',
\* each present only if its column is a column of df
analyze_available_groups(df, team_column, location_column) ==
    [has_teams |-> HasColumn(df, team_column),
     teams |-> IF HasColumn(df, team_column) THEN UniqueValues(df, team_column) ELSE {},
     has_locations |-> HasColumn(df, location_column),
     locations |-> IF HasColumn(df, location_column)
                   THEN UniqueValues(df, location_column) ELSE {}]

-----------------------------------------------------------------------------
(* The run of main() *)

TeamColumn == <<"T">>

LocationColumn == <<"L">>

CommentColumn == <<"C">>

\* a team column and a comment column whose names are written with two spaces
SpacedTeamColumn == <<"T", " ", " ", "m">>

SpacedCommentColumn == <<"C", " ", " ", "x">>

\* the Likert mapping of the runs: "a" is 1, "b" is -1, "a b" has no score
MainMapping ==
    <<[key |-> <<"a">>, value |-> Num(1)],
      [key |-> <<"b">>, value |-> Num(-1)],
      [key |-> <<"a", " ", "b">>, value |-> None]>>

\* the rows a data file is made of: team, location, the answers to two
\* questions, a comment
FileRows ==
    {<<Txt(<<"A">>), Txt(<<"X">>), Txt(<<"a">>), Txt(<<"b">>), Txt(<<"a", "b", "b">>)>>,
     <<Txt(<<"A">>), Txt(<<"Y">>), Txt(<<"b">>), NaN, Txt(<<"a", "b">>)>>,
     <<Txt(<<"B">>), Txt(<<"X">>), Txt(<<" ", "A">>), Txt(<<"a", "nbsp", "b">>), NaN>>,
     <<Txt(<<"B">>), Txt(<<"Y">>), Txt(<<"b", "b">>), Txt(<<"a">>), Txt(<<" ", "a", "b", "a", " ">>)>>}

\* the header rows of a data file: the plain one, one with a question header
\* written with a non-breaking space, one without the location column, one
\* without the team column, one without either, one whose team column is
\* written with two spaces, one whose comment column is
FileHeaders ==
    {<<TeamColumn, LocationColumn, <<"q", " ", "a">>, <<"q", " ", "b">>, CommentColumn>>,
     <<TeamColumn, LocationColumn, <<"q", "nbsp", "a">>, <<"q", " ", "b">>, CommentColumn>>,
     <<TeamColumn, <<"l">>, <<"q", " ", "a">>, <<"q", " ", "b">>, CommentColumn>>,
     <<<<"t">>, LocationColumn, <<"q", " ", "a">>, <<"q", " ", "b">>, CommentColumn>>,
     <<<<"t">>, <<"l">>, <<"q", " ", "a">>, <<"q", " ", "b">>, CommentColumn>>,
     <<SpacedTeamColumn, LocationColumn, <<"q", " ", "a">>, <<"q", " ", "b">>, CommentColumn>>,
     <<TeamColumn, LocationColumn, <<"q", " ", "a">>, <<"q", " ", "b">>, SpacedCommentColumn>>}

\* the data files of at most n rows
DataFiles(n) ==
    {[columns |-> h, rows |-> r] : h \in FileHeaders, r \in SeqsUpTo(FileRows, n)}

\* a valid configuration with the given categories and analysis section
Configuration(categories, analysis) ==
    [sections |-> {"data_source", "columns", "categories"},
     column_keys |-> {"team_column", "location_column"},
     team_column |-> TeamColumn,
     location_column |-> LocationColumn,
     categories |-> categories,
     comment_fields |-> <<[name |-> "c1", column |-> CommentColumn],
                          [name |-> "c2", column |-> SpacedCommentColumn]>>,
     likert_mapping |-> MainMapping,
     analysis |-> analysis]

\* configurations that lack a required section or a required key of the
\* columns section
IncompleteConfigurations ==
    LET c == Configuration(<<[name |-> "c1", questions |-> << <<"q", " ", "a">> >>]>>,
                           [keys |-> {},
                            significant_difference_threshold |-> <<0, 1>>,
                            similar_threshold |-> <<0, 1>>])
    IN  {[c EXCEPT !.sections = c.sections \ {section}] :
             section \in {"data_source", "columns", "categories"}}
        \cup {[c EXCEPT !.column_keys = c.column_keys \ {column}] :
                  column \in {"team_column", "location_column"}}

\* the configurations: two categories and no analysis section; one question
\* written with a tab, one question without a column, and thresholds 2 and 1;
\* a category whose only question has no column, and only the similar
\* threshold, 0.5; no categories; one whose team column is written with two
\* spaces
Configurations ==
    {Configuration(<<[name |-> "c1", questions |-> << <<"q", " ", "a">>, <<"q", " ", "b">> >>],
                     [name |-> "c2", questions |-> << <<"q", " ", "b">> >>]>>,
                   [keys |-> {},
                    significant_difference_threshold |-> <<0, 1>>,
                    similar_threshold |-> <<0, 1>>]),
     Configuration(<<[name |-> "c1", questions |-> << <<"q", "tab", "a">> >>],
                     [name |-> "c2", questions |-> << <<"q", " ", "b">>, <<"q", " ", "c">> >>]>>,
                   [keys |-> {"significant_difference_threshold", "similar_threshold"},
                    significant_difference_threshold |-> <<2, 1>>,
                    similar_threshold |-> <<1, 1>>]),
     Configuration(<<[name |-> "c1", questions |-> << <<"q", " ", "c">> >>],
                     [name |-> "c2", questions |-> << <<"q", " ", "a">> >>]>>,
                   [keys |-> {"similar_threshold"},
                    significant_difference_threshold |-> <<0, 1>>,
                    similar_threshold |-> <<1, 2>>]),
     Configuration(<<>>,
                   [keys |-> {},
                    significant_difference_threshold |-> <<0, 1>>,
                    similar_threshold |-> <<0, 1>>]),
     [Configuration(<<[name |-> "c1", questions |-> << <<"q", " ", "a">> >>]>>,
                    [keys |-> {},
                     significant_difference_threshold |-> <<0, 1>>,
                     similar_threshold |-> <<0, 1>>])
          EXCEPT !.team_column = SpacedTeamColumn]}

Init ==
    /\ mode = "main"
    /\ args = <<>>
    /\ ret = <<>>
    /\ called = 0
    /\ pc = "validate_config"
    /\ config_file \in Configurations \cup IncompleteConfigurations
    /\ data_file \in DataFiles(MaxRows)
    /\ run = NoLocals
    /\ generated_files = FALSE
    /\ result = "running"

\* main() ends returning None after the exception named by why
Abort(why) ==
    /\ pc' = "returned"
    /\ result' = why

\* config = load_config(); validate_config(config)
ValidateConfig ==
    /\ pc = "validate_config"
    /\ IF validate_config(config_file) = "ok"
       THEN pc' = "load_data" /\ UNCHANGED result
       ELSE Abort("None: ValueError")
    /\ UNCHANGED <<callVars, config_file, data_file, run, generated_files>>

\* df = load_data(...)
LoadData ==
    /\ pc = "load_data"
    /\ run' = [run EXCEPT !.df = data_file]
    /\ pc' = "validate_columns"
    /\ UNCHANGED <<callVars, config_file, data_file, generated_files, result>>

\* validate_columns(df, columns['team_column'], columns['location_column'])
ValidateColumns ==
    /\ pc = "validate_columns"
    /\ IF validate_columns(run.df, config_file.team_column, config_file.location_column) = "ok"
       THEN pc' = "normalize_data" /\ UNCHANGED <<result, run>>
       ELSE /\ Abort("None: ValueError")
            /\ run' = [run EXCEPT !.e = MissingColumns(run.df, config_file.team_column,
                                                       config_file.location_column)]
    /\ UNCHANGED <<callVars, config_file, data_file, generated_files>>

\* normalized_df, normalized_categories, missing_questions = normalize_data(...)
\* and group_info = analyze_available_groups(normalized_df, ...)
NormalizeData ==
    /\ pc = "normalize_data"
    /\ LET r == normalize_data(run.df, config_file.categories, config_file.likert_mapping)
       IN  IF r.raised
           THEN Abort("None: ValueError") /\ UNCHANGED run
           ELSE /\ run' = [run EXCEPT
                              !.normalized_df = r.normalized_df,
                              !.normalized_categories = r.matched_questions,
                              !.missing_questions = r.missing_questions,
                              !.group_info = analyze_available_groups(r.normalized_df,
                                                 config_file.team_column,
                                                 config_file.location_column)]
                /\ pc' = "get_user_selections"
                /\ UNCHANGED result
    /\ UNCHANGED <<callVars, config_file, data_file, generated_files>>

\* selected_team, selected_location = get_user_selections(group_info): the
\* user picks a listed name or "all" in each dimension that group_info holds;
\* a dimension it does not hold stays None, and main() then prints that the
\* analysis is cancelled and returns None
GetUserSelections ==
    /\ pc = "get_user_selections"
    /\ IF run.group_info.has_teams /\ run.group_info.has_locations
       THEN /\ \E team \in run.group_info.teams \cup {ALL},
                  location \in run.group_info.locations \cup {ALL} :
                   run' = [run EXCEPT !.selected_team = team,
                                      !.selected_location = location]
            /\ pc' = "filter_data"
            /\ UNCHANGED result
       ELSE Abort("None: cancelled") /\ UNCHANGED run
    /\ UNCHANGED <<callVars, config_file, data_file, generated_files>>

\* the user interrupts a prompt of get_user_selections, which returns
\* (None, None): main() prints that the analysis is cancelled and returns None
CancelSelection ==
    /\ pc = "get_user_selections"
    /\ Abort("None: cancelled")
    /\ run' = [run EXCEPT !.interrupted = TRUE]
    /\ UNCHANGED <<callVars, config_file, data_file, generated_files>>

\* a faulty variant of FilterData: the rows are dropped from the table that
\* is filtered, which main() goes on using as the overall table
FilterDataInPlace ==
    /\ pc = "filter_data"
    /\ LET filtered_df == filter_data(run.normalized_df, config_file.team_column,
                                      config_file.location_column,
                                      run.selected_team, run.selected_location)
       IN  run' = [run EXCEPT !.filtered_df = filtered_df, !.normalized_df = filtered_df]
    /\ pc' = "generate_detailed_statistics"
    /\ UNCHANGED <<callVars, config_file, data_file, generated_files, result>>

\* filtered_df = filter_data(normalized_df, ...)
FilterData ==
    /\ pc = "filter_data"
    /\ run' = [run EXCEPT !.filtered_df =
                  filter_data(run.normalized_df, config_file.team_column,
                              config_file.location_column,
                              run.selected_team, run.selected_location)]
    /\ pc' = "generate_detailed_statistics"
    /\ UNCHANGED <<callVars, config_file, data_file, generated_files, result>>

\* stats = generate_detailed_statistics(filtered_df, normalized_df, ...)
GenerateDetailedStatistics ==
    /\ pc = "generate_detailed_statistics"
    /\ run' = [run EXCEPT !.stats =
                  generate_detailed_statistics(run.filtered_df, run.normalized_df,
                      run.normalized_categories, config_file.comment_fields,
                      config_file.team_column, config_file.location_column,
                      run.selected_team, run.selected_location)]
    /\ pc' = "get_recommendations"
    /\ UNCHANGED <<callVars, config_file, data_file, generated_files, result>>

\* a faulty variant of GetRecommendations: the reports are written before the
\* recommendations are computed
GetRecommendationsAfterSaving ==
    /\ pc = "get_recommendations"
    /\ generated_files' = TRUE
    /\ run' = [run EXCEPT !.recommendations =
                  get_recommendations(run.stats, run.normalized_categories)]
    /\ pc' = "save_analysis_results"
    /\ UNCHANGED <<callVars, config_file, data_file, result>>

\* recommendations = get_recommendations(stats, normalized_categories)
GetRecommendations ==
    /\ pc = "get_recommendations"
    /\ run' = [run EXCEPT !.recommendations =
                  get_recommendations(run.stats, run.normalized_categories)]
    /\ pc' = "save_analysis_results"
    /\ UNCHANGED <<callVars, config_file, data_file, generated_files, result>>

\* display_analysis_results(...); save_analysis_results(...); return normalized_df
SaveAnalysisResults ==
    /\ pc = "save_analysis_results"
    /\ generated_files' = TRUE
    /\ pc' = "returned"
    /\ result' = "normalized_df"
    /\ UNCHANGED <<callVars, config_file, data_file, run>>

\* save_analysis_results raises while it makes the run directory or writes a
\* report (an OSError of the file system): main() catches it as an unexpected
\* error and returns None; the run directory exists if it was made before
SaveAnalysisResultsFails ==
    /\ pc = "save_analysis_results"
    /\ generated_files' \in BOOLEAN
    /\ Abort("None: Exception")
    /\ UNCHANGED <<callVars, config_file, data_file, run>>

Next ==
    \/ ValidateConfig
    \/ LoadData
    \/ ValidateColumns
    \/ NormalizeData
    \/ GetUserSelections
    \/ CancelSelection
    \/ FilterData
    \/ GenerateDetailedStatistics
    \/ GetRecommendations
    \/ SaveAnalysisResults
    \/ SaveAnalysisResultsFails

Spec == Init /\ [][Next]_vars

\* the run with its progress: the validation of the configuration, the
\* loading of the table and the validation of its columns follow one another
\* without waiting for anything
SpecLive ==
    /\ Init /\ [][Next]_vars
    /\ WF_vars(ValidateConfig)
    /\ WF_vars(LoadData)
    /\ WF_vars(ValidateColumns)

\* main() holds the statistics bundle
HasStats ==
    /\ mode = "main"
    /\ \/ pc \in {"get_recommendations", "save_analysis_results"}
       \/ pc = "returned" /\ result = "normalized_df"

\* C3 as claimed: the status of every comparison of a run is the band of its
\* difference under the thresholds of the configuration (the defaults 0.2 and
\* 0.1 only where the configuration omits them).
C3_StatusUsesConfiguredThresholds ==
    HasStats =>
        \A i \in 1..Len(run.stats.comparisons) :
            run.stats.comparisons[i].status =
                get_performance_status(run.stats.comparisons[i].difference,
                    get_analysis_settings(config_file).significant_difference_threshold,
                    get_analysis_settings(config_file).similar_threshold)

\* main() has filtered normalized_df
HasFiltered ==
    /\ mode = "main"
    /\ \/ pc = "generate_detailed_statistics"
       \/ HasStats

\* no row of normalized_df has the selected team and the selected location
SelectorMatchesNoRow ==
    \A r \in 1..Len(run.normalized_df.rows) :
        LET row == run.normalized_df.rows[r]
        IN  ~ (/\ run.selected_team = ALL
                  \/ CellEquals(row[ColumnIndex(run.normalized_df, config_file.team_column)],
                                run.selected_team)
               /\ run.selected_location = ALL
                  \/ CellEquals(row[ColumnIndex(run.normalized_df,
                                                config_file.location_column)],
                                run.selected_location))

\* C9: when the selector matches no row, filter_data returns an empty row set
\* and generate_detailed_statistics returns its bundle, the run going on; the
\* bundle of any selector has the keys metadata, category_performance,
\* comparisons, question_details and comments, and with no matching row
\* metadata.filtered_responses is 0 and category_performance is empty.
C9_EmptyFilteredSetIsNotFatal ==
    /\ (HasFiltered /\ SelectorMatchesNoRow) =>
           /\ run.filtered_df.rows = <<>>
           /\ result \in {"running", "normalized_df"}
    /\ HasStats =>
           /\ DOMAIN run.stats = {"metadata", "category_performance", "comparisons",
                                  "question_details", "comments"}
           /\ SelectorMatchesNoRow =>
                  /\ run.stats.metadata.filtered_responses = 0
                  /\ run.stats.category_performance = <<>>

\* the bundle of a run has been built in which the table has rows, the user
\* selected a team and a location that no row combines, and a category has a
\* matched question
C9_Witness ==
    /\ HasStats
    /\ Len(run.normalized_df.rows) >= 2
    /\ run.selected_team # ALL
    /\ run.selected_location # ALL
    /\ run.filtered_df.rows = <<>>
    /\ run.stats.comparisons # <<>>
    /\ run.stats.metadata.total_responses >= 2

-----------------------------------------------------------------------------
(* Fatal errors of the run *)

\* the configuration lacks a required section or a required column key, or
\* its categories are empty
ConfigurationIsInvalid ==
    \/ \E section \in {"data_source", "columns", "categories"} :
           section \notin config_file.sections
    \/ \E column \in {"team_column", "location_column"} :
           column \notin config_file.column_keys
    \/ config_file.categories = <<>>

\* main() has ended returning None on a ValueError
EndedOnValueError == pc = "returned" /\ result = "None: ValueError"

\* C11: if the configuration lacks one of the sections data_source, columns,
\* categories, or columns lacks team_column or location_column, or categories
\* is empty, validate_config raises ValueError and main() ends returning None,
\* and at no time of the run has it loaded or normalized the table, prompted
\* for a selection, computed statistics or written output.
C11_ConfigErrorsAreFatalAndFirst ==
    /\ []((mode = "main" /\ ConfigurationIsInvalid) =>
              /\ pc \in {"validate_config", "returned"}
              /\ run = NoLocals
              /\ generated_files = FALSE
              /\ pc = "returned" => result = "None: ValueError")
    /\ ((mode = "main" /\ ConfigurationIsInvalid) ~> EndedOnValueError)

\* a run whose configuration has every section and key but no category has
\* ended on the ValueError, with a data file of three rows waiting
C11_Witness ==
    /\ mode = "main"
    /\ config_file.sections = {"data_source", "columns", "categories"}
    /\ config_file.column_keys = {"team_column", "location_column"}
    /\ config_file.categories = <<>>
    /\ Len(data_file.rows) = 3
    /\ EndedOnValueError

\* the configured team column or location column is no column of the data file
ColumnIsMissing ==
    \/ ~HasColumn(data_file, config_file.team_column)
    \/ ~HasColumn(data_file, config_file.location_column)

\* C12: if the configured team column or location column is not a column of
\* the loaded table, validate_columns raises a ValueError that lists every
\* missing column, and the run ends returning None before normalization,
\* selection, filtering, statistics and output; if both are columns of the
\* table, validate_columns returns and the run goes on to normalize_data.
C12_ColumnErrorsAreFatal ==
    /\ []((mode = "main" /\ ~ConfigurationIsInvalid /\ ColumnIsMissing) =>
              /\ pc \in {"validate_config", "load_data", "validate_columns", "returned"}
              /\ run.normalized_df = EmptyTable
              /\ run.normalized_categories = <<>>
              /\ run.selected_team = <<>> /\ run.selected_location = <<>>
              /\ run.filtered_df = EmptyTable
              /\ run.stats = <<>>
              /\ run.recommendations = <<>>
              /\ generated_files = FALSE
              /\ pc = "returned" =>
                     /\ result = "None: ValueError"
                     /\ \A column \in {config_file.team_column,
                                       config_file.location_column} :
                            ~HasColumn(data_file, column)
                                <=> \E i \in 1..Len(run.e) : run.e[i] = column)
    /\ ((mode = "main" /\ ~ConfigurationIsInvalid /\ ColumnIsMissing)
            ~> EndedOnValueError)
    /\ [][(pc = "validate_columns" /\ ~ColumnIsMissing) =>
              (pc' = "normalize_data" /\ result' = "running")]_vars

\* a run has ended on the ValueError of validate_columns, which names the
\* team column and the location column, with a data file of three rows
C12_Witness ==
    /\ mode = "main"
    /\ ~ConfigurationIsInvalid
    /\ Len(data_file.rows) = 3
    /\ EndedOnValueError
    /\ run.df = data_file
    /\ run.e = <<config_file.team_column, config_file.location_column>>

-----------------------------------------------------------------------------
(* The statistics of a run *)

\* the score [defined, value] is the mean of the defined values of the
\* question q in the rows of df, not defined when there is none
IsQuestionMean(score, df, q) ==
    IF DefinedRows(df, q) = {}
    THEN ~score.defined
    ELSE score.defined /\ IsMeanOfQuestionMeans(score.value, df, <<q>>)

\* C17: for each matched question of each category the bundle reports
\* filtered_score, the mean of the defined filtered values (undefined if there
\* is no filtered row or no defined value), overall_score, the mean of the
\* defined overall values, difference = filtered_score - overall_score
\* (undefined when filtered_score is), filtered_responses, the number of
\* defined values of the question in the filtered rows, and total_responses,
\* the number of defined values in all rows.
C17_QuestionDetail ==
    HasStats =>
        \A i \in 1..Len(run.normalized_categories) :
            LET category == run.normalized_categories[i]
            IN  \A k \in 1..Len(category.questions) :
                    LET q == category.questions[k]
                    IN  /\ HasKey(run.stats.question_details, category.name)
                        /\ HasKey(Lookup(run.stats.question_details, category.name).questions, q)
                        /\ LET d == Lookup(Lookup(run.stats.question_details,
                                                  category.name).questions, q)
                           IN  /\ IsQuestionMean(d.filtered_score, run.filtered_df, q)
                               /\ IsQuestionMean(d.overall_score, run.normalized_df, q)
                               /\ IF d.filtered_score.defined
                                  THEN /\ d.difference.defined
                                       /\ d.difference.value
                                              = RatSub(d.filtered_score.value,
                                                       d.overall_score.value)
                                  ELSE ~d.difference.defined
                               /\ d.filtered_responses
                                      = Cardinality(DefinedRows(run.filtered_df, q))
                               /\ d.total_responses
                                      = Cardinality(DefinedRows(run.normalized_df, q))

\* the bundle of a run has been built in which two rows were selected out of
\* three and, of one matched question, one selected row holds a defined value
\* and the other does not
C17_Witness ==
    /\ HasStats
    /\ Len(run.normalized_df.rows) = 3
    /\ Len(run.filtered_df.rows) = 2
    /\ \E i \in 1..Len(run.stats.question_details) :
           \E k \in 1..Len(run.stats.question_details[i].questions) :
               LET d == run.stats.question_details[i].questions[k]
               IN  /\ d.filtered_responses = 1
                   /\ d.total_responses = 2
                   /\ d.filtered_score.defined
                   /\ d.difference.defined
                   /\ d.difference.value # <<0, 1>>

\* normalize_data has returned to main()
HasNormalized == mode = "main" /\ run.normalized_df # EmptyTable

\* the configured question has no column in the data file
HasNoColumn(question) ==
    \A c \in 1..Len(data_file.columns) :
        sanitize_text(data_file.columns[c]) # sanitize_text(question)

\* C18: a configured question without a matching column is recorded in the
\* missing-questions list and normalize_data returns without raising, so the
\* run does not end on it; a category all of whose questions are missing is
\* in the matched schema with an empty list and is absent from
\* category_performance, comparisons and question_details, while every other
\* category is compared and scored from its matched questions alone.
C18_SchemaGapsAreNotFatal ==
    /\ (mode = "main" /\ pc = "returned" /\ result = "None: ValueError")
           => (ConfigurationIsInvalid \/ ColumnIsMissing)
    /\ HasNormalized =>
           /\ Len(run.normalized_categories) = Len(config_file.categories)
           /\ \A i \in 1..Len(config_file.categories) :
                  LET category == config_file.categories[i]
                      matched == run.normalized_categories[i].questions
                  IN  /\ run.normalized_categories[i].name = category.name
                      /\ \A k \in 1..Len(category.questions) :
                             HasNoColumn(category.questions[k]) <=>
                                 \E m \in 1..Len(run.missing_questions) :
                                     run.missing_questions[m]
                                         = <<category.name, category.questions[k]>>
                      /\ (\A k \in 1..Len(category.questions) :
                              HasNoColumn(category.questions[k])) <=> matched = <<>>
                      /\ HasStats =>
                             IF matched = <<>>
                             THEN /\ ~HasKey(run.stats.category_performance, category.name)
                                  /\ ~HasKey(run.stats.comparisons, category.name)
                                  /\ ~HasKey(run.stats.question_details, category.name)
                             ELSE /\ HasKey(run.stats.comparisons, category.name)
                                  /\ HasKey(run.stats.question_details, category.name)
                                  /\ HasCategoryScore(run.filtered_df, matched)
                                         <=> HasKey(run.stats.category_performance,
                                                    category.name)
                                  /\ HasKey(run.stats.category_performance, category.name)
                                         => IsMeanOfQuestionMeans(
                                                Lookup(run.stats.category_performance,
                                                       category.name).score,
                                                run.filtered_df, matched)

\* a run has ended with its reports for a configuration whose first category
\* has no question with a column and whose second category has a score
C18_Witness ==
    /\ HasStats
    /\ pc = "returned"
    /\ generated_files
    /\ Len(run.normalized_categories) = 2
    /\ run.normalized_categories[1].questions = <<>>
    /\ run.missing_questions = << <<"c1", <<"q", " ", "c">> >> >>
    /\ Keys(run.stats.category_performance) = {"c2"}
    /\ Keys(run.stats.comparisons) = {"c2"}

-----------------------------------------------------------------------------
(* The comments of a run *)

\* the cell is a comment worth keeping: not null, and at least 3 characters
\* once trimmed
Qualifies(cell) == ~isna(cell) /\ Len(Strip(Str(cell))) >= 3

\* the rows of df whose cell number c qualifies, in row order
QualifyingRows(df, c) == SelectSeq(df.rows, LAMBDA row : Qualifies(row[c]))

\* C22: for each entry of comment_fields, the comments of the bundle under
\* its category are exactly the qualifying cells of its column in the
\* filtered rows, in row order, each as its trimmed text with the team and
\* the location of its row; count is their number, and a category without a
\* qualifying comment has no entry.
C22_CommentExtraction ==
    HasStats =>
        /\ \A i \in 1..Len(run.stats.comments) :
               \E f \in 1..Len(config_file.comment_fields) :
                   config_file.comment_fields[f].name = run.stats.comments[i].name
        /\ \A f \in 1..Len(config_file.comment_fields) :
               LET field == config_file.comment_fields[f]
                   df == run.filtered_df
                   c == ColumnIndex(df, field.column)
                   rows == IF HasColumn(df, field.column)
                           THEN QualifyingRows(df, c) ELSE <<>>
                   expected ==
                       [k \in 1..Len(rows) |->
                           [text |-> Strip(Str(rows[k][c])),
                            team |-> rows[k][ColumnIndex(df, config_file.team_column)],
                            location |->
                                rows[k][ColumnIndex(df, config_file.location_column)]]]
               IN  IF rows = <<>>
                   THEN ~HasKey(run.stats.comments, field.name)
                   ELSE /\ HasKey(run.stats.comments, field.name)
                        /\ Lookup(run.stats.comments, field.name).comments = expected
                        /\ Lookup(run.stats.comments, field.name).count = Len(rows)

\* a run over three rows, one with a comment of two characters, holds the two
\* other comments, trimmed, with their teams and locations
C22_Witness ==
    /\ HasStats
    /\ Len(run.filtered_df.rows) = 3
    /\ \E r \in 1..3 : run.filtered_df.rows[r][5] = Txt(<<"a", "b">>)
    /\ run.stats.comments =
           <<[name |-> "c1",
              comments |-> <<[text |-> <<"a", "b", "b">>,
                              team |-> Txt(<<"A">>), location |-> Txt(<<"X">>)],
                             [text |-> <<"a", "b", "a">>,
                              team |-> Txt(<<"B">>), location |-> Txt(<<"Y">>)]>>,
              count |-> 2]>>

\* C29 as claimed: for every entry of comment_fields whose column is a header
\* of the data file, the qualifying comments of the filtered rows are in the
\* bundle under its category.
C29_CommentColumnIsNotLost ==
    HasStats =>
        \A f \in 1..Len(config_file.comment_fields) :
            LET field == config_file.comment_fields[f]
                c == ColumnIndex(data_file, field.column)
                rows == QualifyingRows(run.filtered_df, c)
            IN  (HasColumn(data_file, field.column) /\ rows # <<>>) =>
                    /\ HasKey(run.stats.comments, field.name)
                    /\ Len(Lookup(run.stats.comments, field.name).comments) = Len(rows)
                    /\ \A k \in 1..Len(rows) :
                           Lookup(run.stats.comments, field.name).comments[k].text
                               = Strip(Str(rows[k][c]))

\* the data file has the comment column the configuration names and a row with
\* a comment in it, and the bundle of the run over every row has no comment
C29_CommentsLost ==
    /\ HasStats
    /\ HasColumn(data_file, SpacedCommentColumn)
    /\ Len(run.filtered_df.rows) = Len(data_file.rows)
    /\ \E r \in 1..Len(run.filtered_df.rows) : Qualifies(run.filtered_df.rows[r][5])
    /\ run.stats.comments = <<>>

-----------------------------------------------------------------------------
(* The selection of a run *)

\* validate_columns has accepted the table of the data file
ColumnsAccepted ==
    /\ mode = "main"
    /\ pc \notin {"validate_config", "load_data", "validate_columns"}
    /\ run.df = data_file
    /\ validate_columns(run.df, config_file.team_column, config_file.location_column) = "ok"

\* C25 as claimed: once validate_columns has accepted the table, the
\* configured team and location columns are columns of the normalized table,
\* group_info holds both dimensions, a selection that was not interrupted has
\* a value in each dimension, and the run ends as cancelled only after an
\* interruption.
C25_AcceptedColumnsSurvive ==
    (ColumnsAccepted /\ HasNormalized) =>
        /\ HasColumn(run.normalized_df, config_file.team_column)
        /\ HasColumn(run.normalized_df, config_file.location_column)
        /\ run.group_info.has_teams
        /\ run.group_info.has_locations
        /\ (pc # "get_user_selections" /\ ~run.interrupted) =>
               /\ run.selected_team # <<>>
               /\ run.selected_location # <<>>
        /\ result = "None: cancelled" => run.interrupted

\* the run has ended as cancelled, without an interruption, on a table that
\* validate_columns accepted
C25_CancelledWithoutInterruption ==
    /\ ColumnsAccepted
    /\ HasNormalized
    /\ pc = "returned"
    /\ result = "None: cancelled"
    /\ ~run.interrupted
    /\ ~run.group_info.has_teams
    /\ run.group_info.has_locations

-----------------------------------------------------------------------------
(* What the stages leave alone *)

\* C23: no stage changes its input: normalize_data leaves the raw table as it
\* was loaded (headers, cells, row order), filter_data leaves the table it
\* filters as it was, so that the overall rows are the same before and after,
\* and get_recommendations leaves the bundle as it was.
C23_StagesLeaveTheirInputs ==
    [][mode = "main" =>
          /\ pc = "normalize_data" => (run'.df = run.df /\ run'.df = data_file)
          /\ pc = "filter_data" =>
                 /\ run'.normalized_df = run.normalized_df
                 /\ run'.df = run.df
                 /\ Len(run'.normalized_df.rows) = Len(data_file.rows)
          /\ pc = "get_recommendations" =>
                 /\ run'.stats = run.stats
                 /\ run'.normalized_df = run.normalized_df
                 /\ run'.filtered_df = run.filtered_df]_vars

\* a run has ended with its reports: its raw table is the data file, with a
\* header and cells that normalization rewrote in the normalized table, the
\* filter kept fewer rows than the normalized table has, and the bundle
\* counts every row of the data file as the overall rows
C23_Witness ==
    /\ HasStats
    /\ pc = "returned"
    /\ run.df = data_file
    /\ run.df.columns # run.normalized_df.columns
    /\ run.df.rows # run.normalized_df.rows
    /\ Len(run.filtered_df.rows) < Len(run.normalized_df.rows)
    /\ run.stats.metadata.total_responses = Len(data_file.rows)
    /\ run.recommendations # <<>>

-----------------------------------------------------------------------------
(* The keys and the counts of the bundle *)

\* the categories with at least one matched question
MatchedCategories ==
    {run.normalized_categories[i].name :
         i \in {k \in 1..Len(run.normalized_categories) :
                    run.normalized_categories[k].questions # <<>>}}

\* C27: in the bundle of a run every category of category_performance has a
\* comparison, whose filtered_score is its score in category_performance, and
\* comparisons and question_details hold exactly the categories with at least
\* one matched question.
C27_BundleKeysAreConsistent ==
    HasStats =>
        /\ Keys(run.stats.category_performance) \subseteq Keys(run.stats.comparisons)
        /\ \A c \in Keys(run.stats.category_performance) :
               Lookup(run.stats.comparisons, c).filtered_score
                   = Lookup(run.stats.category_performance, c).score
        /\ Keys(run.stats.comparisons) = MatchedCategories
        /\ Keys(run.stats.question_details) = MatchedCategories

\* the bundle of a run over some rows: the second category has a score that
\* is not 0, and the first has a matched question that no filtered row
\* answers, so it has a comparison with the score 0 and no score of its own
C27_Witness ==
    /\ HasStats
    /\ Len(run.filtered_df.rows) > 0
    /\ Len(run.normalized_categories) = 2
    /\ Keys(run.stats.comparisons) = {"c1", "c2"}
    /\ Keys(run.stats.category_performance) = {"c2"}
    /\ Lookup(run.stats.category_performance, "c2").score # <<0, 1>>
    /\ Lookup(run.stats.comparisons, "c1").filtered_score = <<0, 1>>

\* C28: in the bundle of a run the filtered rows are no more than the overall
\* rows, and for every question detail 0 <= filtered_responses <=
\* total_responses, filtered_responses is at most the number of filtered rows
\* and total_responses at most the number of overall rows.
C28_CountsAreOrdered ==
    HasStats =>
        /\ run.stats.metadata.filtered_responses <= run.stats.metadata.total_responses
        /\ \A c \in 1..Len(run.stats.question_details) :
               \A q \in 1..Len(run.stats.question_details[c].questions) :
                   LET detail == run.stats.question_details[c].questions[q]
                   IN  /\ 0 <= detail.filtered_responses
                       /\ detail.filtered_responses <= detail.total_responses
                       /\ detail.filtered_responses <= run.stats.metadata.filtered_responses
                       /\ detail.total_responses <= run.stats.metadata.total_responses

\* the bundle of a run has a question that some but not all filtered rows
\* answer, and that more overall rows answer, though not all
C28_Witness ==
    /\ HasStats
    /\ \E c \in 1..Len(run.stats.question_details) :
           \E q \in 1..Len(run.stats.question_details[c].questions) :
               LET detail == run.stats.question_details[c].questions[q]
               IN  /\ 0 < detail.filtered_responses
                   /\ detail.filtered_responses < run.stats.metadata.filtered_responses
                   /\ detail.filtered_responses < detail.total_responses
                   /\ detail.total_responses < run.stats.metadata.total_responses
                   /\ run.stats.metadata.filtered_responses
                          < run.stats.metadata.total_responses

-----------------------------------------------------------------------------
(* The order of the stages of a run *)

\* the stages of main() in the order of its statements
Stages ==
    <<"validate_config", "load_data", "validate_columns", "normalize_data",
      "get_user_selections", "filter_data", "generate_detailed_statistics",
      "get_recommendations", "save_analysis_results", "returned">>

\* every stage before the output has completed and left its product
StagesCompleted ==
    /\ validate_config(config_file) = "ok"
    /\ run.df = data_file
    /\ validate_columns(run.df, config_file.team_column, config_file.location_column) = "ok"
    /\ run.normalized_df # EmptyTable
    /\ run.selected_team # <<>> /\ run.selected_location # <<>> /\ ~run.interrupted
    /\ run.filtered_df = filter_data(run.normalized_df, config_file.team_column,
                                     config_file.location_column,
                                     run.selected_team, run.selected_location)
    /\ run.stats # <<>>
    /\ run.recommendations # <<>>

\* C30: the stages of main() run in the order of the list, each either
\* passing to the next or ending the run; the run directory and the reports
\* are made only by the output stage, after every stage before it has
\* completed; a run that ends at a cancelled selection or at a stage before
\* the output returns None and has made no directory and no report; main()
\* returns the normalized table only from the output stage, with the reports
\* written.
C30_StageOrdering ==
    /\ [](mode = "main" =>
            /\ generated_files => (pc = "returned" /\ StagesCompleted)
            /\ result = "normalized_df" =>
                   (pc = "returned" /\ generated_files /\ StagesCompleted)
            /\ pc = "returned" => result # "running"
            /\ result \in {"None: ValueError", "None: cancelled"} => ~generated_files)
    /\ [][mode = "main" =>
            /\ pc' # pc =>
                   \/ \E i \in 1..(Len(Stages) - 1) : pc = Stages[i] /\ pc' = Stages[i + 1]
                   \/ pc' = "returned" /\ result' # "normalized_df"
            /\ (pc' = "returned" /\ pc # "save_analysis_results") =>
                   /\ result' \in {"None: ValueError", "None: cancelled"}
                   /\ ~generated_files'
            /\ generated_files' # generated_files => pc = "save_analysis_results"
            /\ result' = "normalized_df" => pc = "save_analysis_results"]_vars

\* a run has returned the normalized table: its reports are written and every
\* stage has left its product, the filter having dropped a row
C30_Witness ==
    /\ mode = "main"
    /\ pc = "returned"
    /\ result = "normalized_df"
    /\ generated_files
    /\ StagesCompleted
    /\ Len(run.filtered_df.rows) < Len(run.normalized_df.rows)

=============================================================================
